---- MODULE Spec2Model ----
(***************************************************************************)
(* BloodCheck image analysis: a model of the colour pipeline of            *)
(* src/unnamed/part_003.  The file holds three generations of the          *)
(* component; two are modelled here:                                       *)
(*   - "App" (lines 1-989): white balance, shade grid, centre-region       *)
(*     sample typing, clustering; no bowl mask and no evidence floor;      *)
(*   - "HealthScanApp" (lines 1830-2980): bowl mask, content ratios,       *)
(*     evidence floor, clustering; no colour correction.                   *)
(* Definitions of the App generation carry the suffix App where the two    *)
(* generations differ; shared code (rgbToHsl, the profile loop, the flood  *)
(* fill) is modelled once.                                                 *)
(*                                                                         *)
(* JavaScript numbers are modelled as exact rationals n/d (d > 0).  The    *)
(* inputs drawn below were cross-checked against IEEE doubles: none of     *)
(* them puts a comparison of the code on a rounding knife edge.            *)
(***************************************************************************)
EXTENDS Integers, Sequences, FiniteSets, TLC

VARIABLES
    pc,          \* which operation has been applied to the current input
    pixel,       \* matchesBlood / matchesContent: the r,g,b argument
    probe,       \* the profile handed to the range test of the profile loop
    matched,     \* results of the classifier calls on pixel
    image,       \* the decoded frame: width, height and the RGBA data
    flashIsOn,   \* whether the torch was on at capture
    gains,       \* the result of computeWhiteBalanceGains
    bloodPixels, \* the matched pixels {x, y, profile} handed to clusterDetections
    cluster,     \* the locals of clusterDetections: grid, visited, queue, boxes, ...
    shade,       \* the result of buildShadeGrid
    sampleType,  \* the result of classifySampleType
    scan,        \* the counters of the HealthScanApp sampling loop
    result,      \* what analyzeImageData returned for image
    previous,    \* the frame analysed before this one, with its result
    sw,          \* the service worker: lifecycle phase, CacheStorage, the fetch in hand
    ui           \* the component: screen, camera calls and streams, scanning effects

vars == <<pc, pixel, probe, matched, image, flashIsOn, gains, bloodPixels, cluster,
          shade, sampleType, scan, result, previous, sw, ui>>

(***************************************************************************)
(* Exact rational arithmetic on pairs <<n, d>>, d > 0.                     *)
(***************************************************************************)
RECURSIVE Gcd(_, _)
Gcd(a, b) == IF b = 0 THEN a ELSE Gcd(b, a % b)

Abs(a) == IF a < 0 THEN -a ELSE a

Norm(n, d) ==
    LET g == Gcd(Abs(n), d) IN IF g = 0 THEN <<0, 1>> ELSE <<n \div g, d \div g>>

\* sign of a/b - c/d (b, d > 0), by continued-fraction expansion: no product
\* of the operands is formed, so large operands cannot overflow.
RECURSIVE FracCmp(_, _, _, _)
FracCmp(a, b, c, d) ==
    LET qa == a \div b
        qc == c \div d
        ra == a % b
        rc == c % d
    IN  IF qa # qc THEN (IF qa < qc THEN -1 ELSE 1)
        ELSE IF ra = 0 /\ rc = 0 THEN 0
        ELSE IF ra = 0 THEN -1
        ELSE IF rc = 0 THEN 1
        ELSE FracCmp(d, rc, b, ra)

\* NaN is 0/0; every comparison with NaN is false
NaN == <<0, 0>>
IsNaN(p) == p[2] = 0

Lt(p, q)  == ~IsNaN(p) /\ ~IsNaN(q) /\ FracCmp(p[1], p[2], q[1], q[2]) < 0
Leq(p, q) == ~IsNaN(p) /\ ~IsNaN(q) /\ FracCmp(p[1], p[2], q[1], q[2]) <= 0
Geq(p, q) == Leq(q, p)
Gt(p, q)  == Lt(q, p)
Whole(k)  == <<k, 1>>

Max2(a, b) == IF a >= b THEN a ELSE b
Min2(a, b) == IF a <= b THEN a ELSE b

MinOf(S) == CHOOSE a \in S : \A b \in S : a <= b
MaxOf(S) == CHOOSE a \in S : \A b \in S : a >= b

(***************************************************************************)
(* Profile tables.                                                         *)
(***************************************************************************)
BLOOD_PROFILES == <<
    [label |-> "Bright Red",    hMin |-> 0,   hMax |-> 15,  sMin |-> 45, sMax |-> 100, lMin |-> 25, lMax |-> 55, severity |-> "urgent"],
    [label |-> "Dark Red",      hMin |-> 340, hMax |-> 360, sMin |-> 40, sMax |-> 100, lMin |-> 15, lMax |-> 40, severity |-> "urgent"],
    [label |-> "Maroon",        hMin |-> 0,   hMax |-> 20,  sMin |-> 30, sMax |-> 80,  lMin |-> 10, lMax |-> 25, severity |-> "warning"],
    [label |-> "Brown Blood",   hMin |-> 15,  hMax |-> 40,  sMin |-> 25, sMax |-> 70,  lMin |-> 8,  lMax |-> 22, severity |-> "warning"],
    [label |-> "Black (Tarry)", hMin |-> 0,   hMax |-> 360, sMin |-> 0,  sMax |-> 30,  lMin |-> 2,  lMax |-> 10, severity |-> "caution"] >>

\* the App component's BLOOD_PROFILES: the same ranges in the same order, with
\* these labels, tiers and hatch styles
APP_BLOOD_PROFILES == <<
    [label |-> "Bright Red", severity |-> "look_into",  hatchStyle |-> "vertical"],
    [label |-> "Dark Red",   severity |-> "look_into",  hatchStyle |-> "vertical"],
    [label |-> "Maroon",     severity |-> "monitor",    hatchStyle |-> "diagonal"],
    [label |-> "Brown",      severity |-> "monitor",    hatchStyle |-> "diagonal"],
    [label |-> "Dark/Tarry", severity |-> "keep_watch", hatchStyle |-> "dots"] >>

\* the App component's severity table: a glyph (by its shape) and a label
SEVERITY_META ==
    [look_into  |-> [shape |-> "triangle", label |-> "Something to look into"],
     monitor    |-> [shape |-> "diamond",  label |-> "Worth keeping an eye on"],
     keep_watch |-> [shape |-> "circle",   label |-> "Worth a mention to your doctor"]]

\* the HealthScanApp component's severity table: the icons are emoji discs of
\* different colours
SEVERITY_INFO ==
    [urgent  |-> [icon |-> [shape |-> "circle", color |-> "red"],    title |-> "Urgent"],
     warning |-> [icon |-> [shape |-> "circle", color |-> "orange"], title |-> "Warning"],
     caution |-> [icon |-> [shape |-> "circle", color |-> "black"],  title |-> "Caution"]]

\* Object.entries order of CONTENT_PROFILES: urine, then stool
CONTENT_PROFILES == <<
    [label |-> "urine", hMin |-> 35, hMax |-> 70, sMin |-> 15, sMax |-> 80, lMin |-> 35, lMax |-> 80],
    [label |-> "stool", hMin |-> 10, hMax |-> 35, sMin |-> 20, sMax |-> 75, lMin |-> 12, lMax |-> 45] >>

(***************************************************************************)
(* rgbToHsl.  The channels are r/q, g/q, b/q on the 0..255 scale (q = 1    *)
(* for raw bytes); the result is h in degrees, s and l in percent, each a  *)
(* rational.                                                               *)
(***************************************************************************)
rgbToHsl(r, g, b, q) ==
    IF q = 0 THEN [h |-> NaN, s |-> NaN, l |-> NaN]     \* NaN channels: s and l are NaN
    ELSE
    LET mx == Max2(r, Max2(g, b))
        mn == Min2(r, Min2(g, b))
        d  == mx - mn
        l  == Norm(100 * (mx + mn), 510 * q)
        s  == IF mx = mn THEN Whole(0)
              ELSE IF mx + mn > 255 * q          \* l > 0.5
                   THEN Norm(100 * d, 510 * q - mx - mn)
                   ELSE Norm(100 * d, mx + mn)
        h  == IF mx = mn THEN Whole(0)
              ELSE IF mx = r THEN Norm(60 * (g - b) + (IF g < b THEN 360 * d ELSE 0), d)
              ELSE IF mx = g THEN Norm(60 * (b - r) + 120 * d, d)
              ELSE Norm(60 * (r - g) + 240 * d, d)
    IN  [h |-> h, s |-> s, l |-> l]

\* the hue test of the profile loop, wrap-around included
hMatchWrapAnd(p, h) ==
    IF p.hMin <= p.hMax
    THEN Geq(h, Whole(p.hMin)) /\ Leq(h, Whole(p.hMax))
    ELSE Geq(h, Whole(p.hMin)) /\ Leq(h, Whole(p.hMax))

hMatch(p, h) ==
    IF p.hMin <= p.hMax
    THEN Geq(h, Whole(p.hMin)) /\ Leq(h, Whole(p.hMax))
    ELSE Geq(h, Whole(p.hMin)) \/ Leq(h, Whole(p.hMax))

\* the condition of the if inside the profile loop
profileMatches(p, hsl) ==
    /\ hMatch(p, hsl.h)
    /\ Geq(hsl.s, Whole(p.sMin)) /\ Leq(hsl.s, Whole(p.sMax))
    /\ Geq(hsl.l, Whole(p.lMin)) /\ Leq(hsl.l, Whole(p.lMax))

\* for (const p of profiles) { if (...) return p; } return null;
\* the result is the index of the profile returned, 0 for null
RECURSIVE firstMatchFrom(_, _, _)
firstMatchFrom(profiles, hsl, i) ==
    IF i > Len(profiles) THEN 0
    ELSE IF profileMatches(profiles[i], hsl) THEN i
    ELSE firstMatchFrom(profiles, hsl, i + 1)

RECURSIVE lastMatchFrom(_, _, _)
lastMatchFrom(profiles, hsl, i) ==
    IF i < 1 THEN 0
    ELSE IF profileMatches(profiles[i], hsl) THEN i
    ELSE lastMatchFrom(profiles, hsl, i - 1)

matchesBloodLast(r, g, b, q) == lastMatchFrom(BLOOD_PROFILES, rgbToHsl(r, g, b, q), Len(BLOOD_PROFILES))

matchesBlood(r, g, b, q) == firstMatchFrom(BLOOD_PROFILES, rgbToHsl(r, g, b, q), 1)

matchesContent(r, g, b, q) == firstMatchFrom(CONTENT_PROFILES, rgbToHsl(r, g, b, q), 1)

(***************************************************************************)
(* The frame.  imageData.data is a byte array of 4*width*height entries;   *)
(* it is held as a background colour and a list of rectangles painted over *)
(* it in order, and read through Data: Data(img, i) is data[i], data[i+1], *)
(* data[i+2], data[i+3] for the pixel that starts at byte 4*i.             *)
(***************************************************************************)
Rgba(r, g, b, a) == [r |-> r, g |-> g, b |-> b, a |-> a]

RECURSIVE PaintedAt(_, _, _, _)
PaintedAt(img, x, y, k) ==
    IF k = 0 THEN img.bg
    ELSE LET p == img.patches[k]
         IN  IF x >= p.x /\ x < p.x + p.w /\ y >= p.y /\ y < p.y + p.h
             THEN p.c
             ELSE PaintedAt(img, x, y, k - 1)

\* a read past the end of data yields undefined, on every channel
Undefined == -1

Data(img, i) ==
    IF 4 * i + 3 >= img.length THEN Rgba(Undefined, Undefined, Undefined, Undefined)
    ELSE PaintedAt(img, i % img.width, i \div img.width, Len(img.patches))

\* data.length / 4
DataPixels(img) == img.length \div 4

\* a channel value as a number: undefined becomes NaN in arithmetic
Num(v) == IF v = Undefined THEN NaN ELSE Whole(v)

\* the divisor that brings r, g, b (bytes) to the 0..255 scale: 0 stands for NaN
ByteScale(c) == IF c.r = Undefined \/ c.g = Undefined \/ c.b = Undefined THEN 0 ELSE 1

NoImage == [width |-> 0, height |-> 0, length |-> 0, bg |-> Rgba(0, 0, 0, 0), patches |-> <<>>]

(***************************************************************************)
(* White balance (App generation).                                         *)
(***************************************************************************)
TARGET_WHITE_AMBIENT == 240
\* a flash target below the ambient one
TARGET_WHITE_DIMMED == TARGET_WHITE_AMBIENT - 10
TARGET_WHITE_FLASH == 250
WB_MIN_CHANNEL == 140
WB_MIN_SAMPLES == 20

\* Array.prototype.sort((a,b)=>a-b): the ascending rearrangement of s, built
\* value by value (position k holds the least value v with at least k
\* elements <= v)
SortAsc(s) ==
    LET n == Len(s)
        V == {s[i] : i \in 1..n}
        cum == [v \in V |-> Cardinality({i \in 1..n : s[i] <= v})]
    IN  [k \in 1..n |-> CHOOSE v \in V : cum[v] >= k /\ \A u \in V : u < v => cum[u] < k]

\* 0.299 r + 0.587 g + 0.114 b, in thousandths
Lum1000(r, g, b) == 299 * r + 587 * g + 114 * b

\* median(arr): 0 for an empty array, the middle element of the sorted copy,
\* or the mean of the two middle ones
median(arr) ==
    IF arr = <<>> THEN <<0, 1>>
    ELSE LET t == SortAsc(arr)
             m == Len(t) \div 2
         IN  IF Len(t) % 2 = 1 THEN <<t[m + 1], 1>> ELSE Norm(t[m] + t[m + 1], 2)

\* cl(v) for v = target / med: Math.min(1.6, Math.max(0.6, v)); a zero median
\* makes v Infinity, which clamps to 1.6
clNone(target, med) ==
    IF med[1] = 0 THEN <<8, 5>> ELSE Norm(target * med[2], med[1])

cl(target, med) ==
    IF med[1] = 0 THEN <<8, 5>>
    ELSE LET v == Norm(target * med[2], med[1])
         IN  IF Gt(v, <<8, 5>>) THEN <<8, 5>>
             ELSE IF Lt(v, <<3, 5>>) THEN <<3, 5>>
             ELSE v

\* the sampled pixels: for (i = 0; i < data.length; i += step*4), step = 4
WbSamples(img) == [k \in 1..((DataPixels(img) + 3) \div 4) |-> Data(img, 4 * (k - 1))]

identityGains == [gainR |-> <<1, 1>>, gainG |-> <<1, 1>>, gainB |-> <<1, 1>>]

\* a second pass that tests the luminance only
KeptAny(px, thresh) ==
    SelectSeq(px, LAMBDA c : Lum1000(c.r, c.g, c.b) >= thresh)

\* the pixels kept by the second pass, in sample order
Kept(px, thresh) ==
    SelectSeq(px, LAMBDA c : /\ Lum1000(c.r, c.g, c.b) >= thresh
                             /\ c.r >= WB_MIN_CHANNEL /\ c.g >= WB_MIN_CHANNEL
                             /\ c.b >= WB_MIN_CHANNEL)

computeWhiteBalanceGainsOffByOne(img, flash) ==
    LET TARGET == IF flash THEN TARGET_WHITE_FLASH ELSE TARGET_WHITE_AMBIENT
        px == WbSamples(img)
        lums == SortAsc([k \in 1..Len(px) |-> Lum1000(px[k].r, px[k].g, px[k].b)])
        thresh == IF Len(px) = 0 THEN 0 ELSE lums[((Len(px) * 85) \div 100) + 1]
        kept == Kept(px, thresh)
    IN  IF Len(kept) <= WB_MIN_SAMPLES THEN identityGains
        ELSE [gainR |-> cl(TARGET, median([k \in 1..Len(kept) |-> kept[k].r])),
              gainG |-> cl(TARGET, median([k \in 1..Len(kept) |-> kept[k].g])),
              gainB |-> cl(TARGET, median([k \in 1..Len(kept) |-> kept[k].b]))]

\* thresh is lums[Math.floor(lums.length*0.85)] (undefined for an empty buffer,
\* where neither loop runs; 0 stands for it)
computeWhiteBalanceGains(img, flash) ==
    LET TARGET == IF flash THEN TARGET_WHITE_FLASH ELSE TARGET_WHITE_AMBIENT
        px == WbSamples(img)
        lums == SortAsc([k \in 1..Len(px) |-> Lum1000(px[k].r, px[k].g, px[k].b)])
        thresh == IF Len(px) = 0 THEN 0 ELSE lums[((Len(px) * 85) \div 100) + 1]
        kept == Kept(px, thresh)
    IN  IF Len(kept) < WB_MIN_SAMPLES THEN identityGains
        ELSE [gainR |-> cl(TARGET, median([k \in 1..Len(kept) |-> kept[k].r])),
              gainG |-> cl(TARGET, median([k \in 1..Len(kept) |-> kept[k].g])),
              gainB |-> cl(TARGET, median([k \in 1..Len(kept) |-> kept[k].b]))]

NoGains == [gainR |-> <<0, 1>>, gainG |-> <<0, 1>>, gainB |-> <<0, 1>>]

(***************************************************************************)
(* clusterDetections.  The function is a loop over the cells of a 12-px    *)
(* grid with a breadth-first flood fill inside; its locals are held in one *)
(* record and advanced by three steps: scanStep (the outer loops, up to    *)
(* the next unvisited active cell), fillStep (one pass of the while loop)  *)
(* and emitStep (the code after the while loop).  A profile is held as its *)
(* index in BLOOD_PROFILES; a tally object (cell.profiles, profileTotals)  *)
(* is the list of its <<key, count>> entries in insertion order, which is  *)
(* the order Object.entries walks.                                         *)
(***************************************************************************)
CLUSTER_GRID == 12
CLUSTER_MIN_TOTAL == 8

\* a cell threshold that lets two matches through
CLUSTER_THRESHOLD_LOOSE == CLUSTER_MIN_TOTAL \div 4

CLUSTER_THRESHOLD == 3

CeilDiv(a, b) == (a + b - 1) \div b

\* tally[k] = (tally[k] || 0) + v
TallyAdd(tally, k, v) ==
    IF \E j \in 1..Len(tally) : tally[j][1] = k
    THEN [j \in 1..Len(tally) |-> IF tally[j][1] = k THEN <<k, tally[j][2] + v>> ELSE tally[j]]
    ELSE Append(tally, <<k, v>>)

RECURSIVE TallyMerge(_, _, _)
TallyMerge(tally, entries, j) ==
    IF j > Len(entries) THEN tally
    ELSE TallyMerge(TallyAdd(tally, entries[j][1], entries[j][2]), entries, j + 1)

\* the cell built by the forEach over pixels: the pixels that fall in the cell,
\* counted, and tallied per profile in the order the profiles first occur
CellOf(pixels, gridW, i) ==
    LET mine == SelectSeq(pixels, LAMBDA p :
                    (p.y \div CLUSTER_GRID) * gridW + (p.x \div CLUSTER_GRID) = i)
        keys == {mine[k].profile : k \in 1..Len(mine)}
        first == [l \in keys |-> CHOOSE k \in 1..Len(mine) :
                      mine[k].profile = l /\ \A j \in 1..(k - 1) : mine[j].profile # l]
        firsts == {first[l] : l \in keys}
        order == [k \in 1..Cardinality(keys) |->
                      CHOOSE f \in firsts : Cardinality({g \in firsts : g <= f}) = k]
    IN  [count |-> Len(mine),
         profiles |-> [k \in 1..Len(order) |->
                          <<mine[order[k]].profile,
                            Cardinality({j \in 1..Len(mine) : mine[j].profile = mine[order[k]].profile})>>]]

clusterInit(pixels, width, height) ==
    LET gridW == CeilDiv(width, CLUSTER_GRID)
        gridH == CeilDiv(height, CLUSTER_GRID)
    IN  [phase |-> "scan", gridW |-> gridW, gridH |-> gridH,
         grid |-> [i \in 0..(gridW * gridH - 1) |-> CellOf(pixels, gridW, i)],
         visited |-> {}, boxes |-> <<>>, idx |-> 0, queue |-> <<>>,
         minX |-> 0, maxX |-> 0, minY |-> 0, maxY |-> 0,
         totalPixels |-> 0, profileTotals |-> <<>>]

\* the outer loops without the visited test: a cell already filled is a seed again
scanStepRevisit(st) ==
    LET cand == {i \in st.idx..(st.gridW * st.gridH - 1) : st.grid[i].count >= CLUSTER_THRESHOLD}
    IN  IF cand = {} THEN [st EXCEPT !.phase = "done", !.idx = st.gridW * st.gridH]
        ELSE LET i == CHOOSE c \in cand : \A o \in cand : c <= o
             IN  [st EXCEPT !.phase = "fill", !.idx = i, !.queue = <<i>>,
                            !.visited = st.visited \cup {i},
                            !.minX = i % st.gridW, !.maxX = i % st.gridW,
                            !.minY = i \div st.gridW, !.maxY = i \div st.gridW,
                            !.totalPixels = 0, !.profileTotals = <<>>]

\* for (gy..) for (gx..) { if (visited.has(idx) || grid[idx].count < THRESHOLD)
\* continue; queue = [idx]; visited.add(idx); ... }: the skipped cells are passed
\* in one step
scanStep(st) ==
    LET cand == {i \in st.idx..(st.gridW * st.gridH - 1) :
                    i \notin st.visited /\ st.grid[i].count >= CLUSTER_THRESHOLD}
    IN  IF cand = {} THEN [st EXCEPT !.phase = "done", !.idx = st.gridW * st.gridH]
        ELSE LET i == CHOOSE c \in cand : \A o \in cand : c <= o
             IN  [st EXCEPT !.phase = "fill", !.idx = i, !.queue = <<i>>,
                            !.visited = st.visited \cup {i},
                            !.minX = i % st.gridW, !.maxX = i % st.gridW,
                            !.minY = i \div st.gridW, !.maxY = i \div st.gridW,
                            !.totalPixels = 0, !.profileTotals = <<>>]

\* the four neighbours, in the order of the code
Neighbors4(cx, cy) == << <<cx - 1, cy>>, <<cx + 1, cy>>, <<cx, cy - 1>>, <<cx, cy + 1>> >>

Neighbors8(cx, cy) ==
    Neighbors4(cx, cy) \o << <<cx - 1, cy - 1>>, <<cx + 1, cy - 1>>, <<cx - 1, cy + 1>>, <<cx + 1, cy + 1>> >>

\* the left and right neighbours only
NeighborsAcross(cx, cy) == << <<cx - 1, cy>>, <<cx + 1, cy>> >>

Neighbors(cx, cy) == Neighbors4(cx, cy)

\* neighbors.forEach: push the in-range, unvisited, active ones
RECURSIVE pushNeighbors(_, _, _)
pushNeighbors(st, nb, j) ==
    IF j > Len(nb) THEN st
    ELSE LET nx == nb[j][1]
             ny == nb[j][2]
             ni == ny * st.gridW + nx
         IN  IF nx < 0 \/ ny < 0 \/ nx >= st.gridW \/ ny >= st.gridH
             THEN pushNeighbors(st, nb, j + 1)
             ELSE IF ni \notin st.visited /\ st.grid[ni].count >= CLUSTER_THRESHOLD
             THEN pushNeighbors([st EXCEPT !.visited = st.visited \cup {ni},
                                           !.queue = Append(st.queue, ni)], nb, j + 1)
             ELSE pushNeighbors(st, nb, j + 1)

\* one pass of while (queue.length)
fillStep(st) ==
    LET ci == Head(st.queue)
        cx == ci % st.gridW
        cy == ci \div st.gridW
        popped == [st EXCEPT !.queue = Tail(st.queue),
                             !.minX = Min2(st.minX, cx), !.maxX = Max2(st.maxX, cx),
                             !.minY = Min2(st.minY, cy), !.maxY = Max2(st.maxY, cy),
                             !.totalPixels = st.totalPixels + st.grid[ci].count,
                             !.profileTotals = TallyMerge(st.profileTotals, st.grid[ci].profiles, 1)]
        pushed == pushNeighbors(popped, Neighbors(cx, cy), 1)
    IN  [pushed EXCEPT !.phase = IF pushed.queue = <<>> THEN "emit" ELSE "fill"]

\* Object.entries(profileTotals).sort((a,b) => b[1]-a[1])[0]: the sort is
\* stable, so among the entries with the largest count the first inserted wins
dominant(tally) ==
    LET best == {j \in 1..Len(tally) : \A o \in 1..Len(tally) : tally[o][2] <= tally[j][2]}
    IN  tally[CHOOSE j \in best : \A o \in best : j <= o]

\* the span without the last cell
boxSpanOpen(lo, hi) == (hi - lo) * CLUSTER_GRID

\* (maxX - minX + 1) * GRID
boxSpan(lo, hi) == (hi - lo + 1) * CLUSTER_GRID

\* if (totalPixels < 8) continue; ... boxes.push({...})
emitStep(st) ==
    LET next == [st EXCEPT !.phase = "scan", !.idx = st.idx + 1]
    IN  IF st.totalPixels < CLUSTER_MIN_TOTAL THEN next
        ELSE LET prof == BLOOD_PROFILES[dominant(st.profileTotals)[1]]
             IN  [next EXCEPT !.boxes = Append(st.boxes,
                     [x |-> st.minX * CLUSTER_GRID, y |-> st.minY * CLUSTER_GRID,
                      w |-> boxSpan(st.minX, st.maxX),
                      h |-> boxSpan(st.minY, st.maxY),
                      label |-> prof.label, severity |-> prof.severity,
                      pixels |-> st.totalPixels])]

clusterStep(st) ==
    IF st.phase = "scan" THEN scanStep(st)
    ELSE IF st.phase = "fill" THEN fillStep(st)
    ELSE emitStep(st)

RECURSIVE clusterRun(_)
clusterRun(st) == IF st.phase = "done" THEN st ELSE clusterRun(clusterStep(st))

clusterDetections(pixels, width, height) == clusterRun(clusterInit(pixels, width, height)).boxes

NoCluster == [phase |-> "none"]

(***************************************************************************)
(* More rational arithmetic, for the corrected (fractional) channel values *)
(* of the App generation.                                                  *)
(***************************************************************************)
Add(p, q) ==
    IF IsNaN(p) \/ IsNaN(q) THEN NaN ELSE
    LET g == Gcd(p[2], q[2])
    IN  Norm(p[1] * (q[2] \div g) + q[1] * (p[2] \div g), (p[2] \div g) * q[2])

Neg(p) == <<-p[1], p[2]>>

\* p * q for q >= 0, reduced before the products are formed
Mul(p, q) ==
    IF IsNaN(p) \/ IsNaN(q) THEN NaN
    ELSE IF p[1] = 0 \/ q[1] = 0 THEN <<0, 1>>
    ELSE LET g1 == Gcd(Abs(p[1]), q[2])
             g2 == Gcd(Abs(q[1]), p[2])
         IN  <<(p[1] \div g1) * (q[1] \div g2), (p[2] \div g2) * (q[2] \div g1)>>

\* p / q for q > 0
Quot(p, q) == Mul(p, <<q[2], q[1]>>)

\* Math.min, Math.max: NaN if either argument is NaN
MinQ(p, q) == IF IsNaN(p) \/ IsNaN(q) THEN NaN ELSE IF Leq(p, q) THEN p ELSE q
MaxQ(p, q) == IF IsNaN(p) \/ IsNaN(q) THEN NaN ELSE IF Geq(p, q) THEN p ELSE q

\* least common multiple; 0 if either is 0 (a NaN operand)
Lcm(a, b) == IF a = 0 \/ b = 0 THEN 0 ELSE (a \div Gcd(a, b)) * b

\* the sum of f[e] over e in S, taken value by value: each distinct value
\* times the number of elements that have it
RECURSIVE SumValues(_, _, _)
SumValues(V, f, S) ==
    IF V = {} THEN <<0, 1>>
    ELSE LET v == CHOOSE v \in V : TRUE
         IN  Add(Mul(v, Whole(Cardinality({e \in S : f[e] = v}))), SumValues(V \ {v}, f, S))

SumOver(f, S) == SumValues({f[e] : e \in S}, f, S)

\* rgbToHsl on three fractional channels: they are brought to one denominator
hslOf(px) ==
    LET q == Lcm(px.r[2], Lcm(px.g[2], px.b[2]))
    IN  IF q = 0 THEN rgbToHsl(0, 0, 0, 0) ELSE
        rgbToHsl(px.r[1] * (q \div px.r[2]), px.g[1] * (q \div px.g[2]), px.b[1] * (q \div px.b[2]), q)

\* the x (or y) values of for (x = 0; x < n; x += 2)
Evens(n) == {k \in 0..(n - 1) : k % 2 = 0}

\* the (x, y) visited by the stride-2 double loop, in visiting order
Raster(img) ==
    LET nx == (img.width + 1) \div 2
        ny == (img.height + 1) \div 2
    IN  [k \in 1..(nx * ny) |-> [x |-> 2 * ((k - 1) % nx), y |-> 2 * ((k - 1) \div nx)]]

(***************************************************************************)
(* The colour-correction pipeline of the App generation: buildShadeGrid,   *)
(* the per-pixel correction, classifySampleType and analyzeImageData.      *)
(***************************************************************************)
SHADE_GRID == 8

\* gy * SHADE_GRID + gx, with gy = Math.min(Math.floor(y / cellH), SHADE_GRID - 1)
\* and cellH = height / SHADE_GRID (likewise gx)
shadeIndex(img, x, y) ==
    Min2((SHADE_GRID * y) \div img.height, SHADE_GRID - 1) * SHADE_GRID
        + Min2((SHADE_GRID * x) \div img.width, SHADE_GRID - 1)

\* 0.299 r + 0.587 g + 0.114 b of a fractional pixel
lumOf(px) == Add(Add(Mul(px.r, <<299, 1000>>), Mul(px.g, <<587, 1000>>)), Mul(px.b, <<114, 1000>>))

\* Math.min(255, data[i] * gain) on each channel
gained(c, g) ==
    [r |-> MinQ(Whole(255), Mul(g.gainR, Num(c.r))),
     g |-> MinQ(Whole(255), Mul(g.gainG, Num(c.g))),
     b |-> MinQ(Whole(255), Mul(g.gainB, Num(c.b)))]

\* the samples that fall into shade cell i
shadeMembers(img, i) ==
    IF img.width = 0 \/ img.height = 0 THEN {}        \* the loops do not run
    ELSE {x \in Evens(img.width) : shadeIndex(img, x, 0) = i % SHADE_GRID}
             \X {y \in Evens(img.height) : shadeIndex(img, 0, y) = (i \div SHADE_GRID) * SHADE_GRID}

buildShadeGrid(img, g) ==
    LET cells   == 0..(SHADE_GRID * SHADE_GRID - 1)
        lum     == [p \in Evens(img.width) \X Evens(img.height) |->
                       lumOf(gained(Data(img, p[2] * img.width + p[1]), g))]
        sums    == [i \in cells |-> SumOver(lum, shadeMembers(img, i))]
        counts  == [i \in cells |-> Cardinality(shadeMembers(img, i))]
        gS      == SumOver(lum, Evens(img.width) \X Evens(img.height))   \* the sum of all sums[i]
        gC      == Cardinality(Evens(img.width) \X Evens(img.height))
    IN  [cellAvg   |-> [i \in cells |-> IF counts[i] > 0 THEN Quot(sums[i], Whole(counts[i]))
                                        ELSE Whole(128)],
         globalAvg |-> IF gC > 0 THEN Quot(gS, Whole(gC)) ELSE Whole(128),
         cellW     |-> <<img.width, SHADE_GRID>>,
         cellH     |-> <<img.height, SHADE_GRID>>]

NoShade == [cellAvg |-> <<>>, globalAvg |-> <<0, 1>>, cellW |-> <<0, 1>>, cellH |-> <<0, 1>>]

\* globalAvg / (cellAvg[idx] || 1), with no clamp
shadeFactorUnclamped(sh, idx) ==
    LET avg == IF sh.cellAvg[idx][1] = 0 THEN Whole(1) ELSE sh.cellAvg[idx]
    IN  Quot(sh.globalAvg, avg)

\* Math.min(1.5, Math.max(0.7, globalAvg / (cellAvg[idx] || 1)))
shadeFactor(sh, idx) ==
    LET avg == IF sh.cellAvg[idx][1] = 0 THEN Whole(1) ELSE sh.cellAvg[idx]
    IN  MinQ(<<3, 2>>, MaxQ(<<7, 10>>, Quot(sh.globalAvg, avg)))

\* r = data[i] * gainR; r = Math.min(255, Math.max(0, r * sf)), and g, b alike
corrected(img, g, sh, x, y) ==
    LET c  == Data(img, y * img.width + x)
        sf == shadeFactor(sh, shadeIndex(img, x, y))
    IN  [r |-> MinQ(Whole(255), MaxQ(Whole(0), Mul(Mul(g.gainR, Num(c.r)), sf))),
         g |-> MinQ(Whole(255), MaxQ(Whole(0), Mul(Mul(g.gainG, Num(c.g)), sf))),
         b |-> MinQ(Whole(255), MaxQ(Whole(0), Mul(Mul(g.gainB, Num(c.b)), sf)))]

\* the values of for (v = Math.floor(n * 0.3); v < n * 0.3 + n * 0.4; v += 3)
CentreSteps(n) ==
    {v \in 0..n : v >= (3 * n) \div 10 /\ 10 * v < 7 * n /\ (v - (3 * n) \div 10) % 3 = 0}

classifySampleType(img, g, sh) ==
    LET region == CentreSteps(img.width) \X CentreSteps(img.height)
        hsl    == [p \in region |-> hslOf(corrected(img, g, sh, p[1], p[2]))]
        lum    == [p \in region |-> hsl[p].l]
        sat    == [p \in region |-> hsl[p].s]
        n      == Cardinality(region)
    IN  IF /\ n # 0
           /\ Gt(Quot(SumOver(lum, region), Whole(n)), Whole(55))
           /\ Lt(Quot(SumOver(sat, region), Whole(n)), Whole(30))
        THEN "urine" ELSE "stool"

\* the sampling loop of the App's analyzeImageData: the list bloodPixels
\* the alpha test with the threshold one lower
belowAlphaLoose(a) == a # Undefined /\ a < 127

\* a < 128; undefined < 128 is false
belowAlpha(a) == a # Undefined /\ a < 128

appBloodPixels(img, g, sh) ==
    LET seen == [k \in 1..Len(Raster(img)) |->
                    LET x == Raster(img)[k].x
                        y == Raster(img)[k].y
                        a == Data(img, y * img.width + x).a
                        px == corrected(img, g, sh, x, y)
                        q == Lcm(px.r[2], Lcm(px.g[2], px.b[2]))
                    IN  [x |-> x, y |-> y,
                         profile |-> IF belowAlpha(a) THEN 0
                                     ELSE IF q = 0 THEN matchesBlood(0, 0, 0, 0)
                                     ELSE matchesBlood(px.r[1] * (q \div px.r[2]), px.g[1] * (q \div px.g[2]),
                                                       px.b[1] * (q \div px.b[2]), q)]]
    IN  SelectSeq(seen, LAMBDA p : p.profile # 0)

(***************************************************************************)
(* analyzeImageData of the HealthScanApp generation: the bowl mask, the    *)
(* content tallies and the evidence gate.  No colour correction is done.   *)
(***************************************************************************)
BOWL_MASK == [centerX |-> <<1, 2>>, centerY |-> <<14, 25>>, radiusX |-> <<19, 50>>, radiusY |-> <<11, 25>>]
MIN_BLOOD_PIXELS == 36
MIN_BLOOD_RATIO == <<1, 500>>
MIN_URINE_RATIO == <<1, 50>>
MIN_STOOL_RATIO == <<1, 50>>

\* dx * dx + dy * dy <= 1, tested as dx * dx <= 1 - dy * dy
isInBowlMask(x, y, width, height) ==
    LET cx == Mul(BOWL_MASK.centerX, Whole(width))
        cy == Mul(BOWL_MASK.centerY, Whole(height))
        rx == Mul(BOWL_MASK.radiusX, Whole(width))
        ry == Mul(BOWL_MASK.radiusY, Whole(height))
        dx == Quot(Add(Whole(x), Neg(cx)), rx)
        dy == Quot(Add(Whole(y), Neg(cy)), ry)
    IN  Leq(<<dx[1] * dx[1], dx[2] * dx[2]>>, Add(Whole(1), <<-(dy[1] * dy[1]), dy[2] * dy[2]>>))

\* the sampling loop: the samples that pass the mask and the alpha test, each
\* with its content type and blood profile (0 for null)
scanSamples(img) ==
    LET seen == [k \in 1..Len(Raster(img)) |->
                    LET x == Raster(img)[k].x
                        y == Raster(img)[k].y
                        c == Data(img, y * img.width + x)
                    IN  IF isInBowlMask(x, y, img.width, img.height)
                            /\ ~belowAlpha(c.a)
                        THEN [x |-> x, y |-> y, counted |-> TRUE,
                              content |-> matchesContent(c.r, c.g, c.b, ByteScale(c)),
                              profile |-> matchesBlood(c.r, c.g, c.b, ByteScale(c))]
                        ELSE [x |-> x, y |-> y, counted |-> FALSE, content |-> 0, profile |-> 0]]
    IN  SelectSeq(seen, LAMBDA p : p.counted)

\* the sampling loop run on counters that are not reset: the matched pixels
\* and the counts of the last call are carried into this one
scanTallyCarried(img) ==
    LET counted == scanSamples(img)
        blood   == SelectSeq(counted, LAMBDA p : p.profile # 0)
    IN  [bowlSamples   |-> scan.bowlSamples + Len(counted),
         contentCounts |-> [urine |-> scan.contentCounts.urine + Len(SelectSeq(counted, LAMBDA p : p.content = 1)),
                            stool |-> scan.contentCounts.stool + Len(SelectSeq(counted, LAMBDA p : p.content = 2))],
         bloodPixels   |-> bloodPixels \o
                           [k \in 1..Len(blood) |->
                               [x |-> blood[k].x, y |-> blood[k].y, profile |-> blood[k].profile]]]

scanTally(img) ==
    LET counted == scanSamples(img)
        blood   == SelectSeq(counted, LAMBDA p : p.profile # 0)
    IN  [bowlSamples   |-> Len(counted),
         contentCounts |-> [urine |-> Len(SelectSeq(counted, LAMBDA p : p.content = 1)),
                            stool |-> Len(SelectSeq(counted, LAMBDA p : p.content = 2))],
         bloodPixels   |-> [k \in 1..Len(blood) |->
                               [x |-> blood[k].x, y |-> blood[k].y, profile |-> blood[k].profile]]]

NoScan == [bowlSamples |-> 0, contentCounts |-> [urine |-> 0, stool |-> 0]]

\* n / bowlSamples with no test of bowlSamples: 0 / 0 is NaN
ratioUnguarded(n, bowlSamples) ==
    IF bowlSamples # 0 THEN Norm(n, bowlSamples) ELSE NaN

\* bowlSamples ? n / bowlSamples : 0
ratioOf(n, bowlSamples) ==
    IF bowlSamples # 0 THEN Norm(n, bowlSamples) ELSE Whole(0)

\* the code after the loop: ratios, sample type, evidence gate, clustering
scanReport(t, pixels, width, height) ==
    LET ratio(n) == ratioOf(n, t.bowlSamples)
        bloodRatio == ratio(Len(pixels))
        contentSummary == [urineRatio |-> ratio(t.contentCounts.urine),
                           stoolRatio |-> ratio(t.contentCounts.stool)]
        hasUrine == Geq(contentSummary.urineRatio, MIN_URINE_RATIO)
        hasStool == Geq(contentSummary.stoolRatio, MIN_STOOL_RATIO)
        verdict == IF hasUrine /\ hasStool THEN "both"
                   ELSE IF hasUrine THEN "urine"
                   ELSE IF hasStool THEN "stool" ELSE "unknown"
    IN  [detections     |-> IF Len(pixels) < MIN_BLOOD_PIXELS \/ Lt(bloodRatio, MIN_BLOOD_RATIO)
                            THEN <<>>
                            ELSE clusterDetections(pixels, width, height),
         bloodPixels    |-> Len(pixels),
         bloodRatio     |-> bloodRatio,
         sampleType     |-> verdict,
         contentSummary |-> contentSummary]

NoResult == [detections |-> <<>>, sampleType |-> "none"]

NoPrevious == [image |-> NoImage, result |-> NoResult]

(***************************************************************************)
(* The service worker, src/public/sw.js.  CacheStorage is the sequence of  *)
(* the origin's caches in creation order; a cache maps a URL to the        *)
(* response stored under it.  A response carries the URL it answers and a  *)
(* version, so that a stored copy and a fresh answer can be told apart.    *)
(***************************************************************************)
CACHE_NAME == "healthscan-v1"

PRECACHE_FILES == <<"/", "/manifest.json", "/icon-192.svg", "/icon-512.svg">>

NoResponse == [url |-> "none", version |-> 0, ok |-> FALSE]

\* new Response('... You are offline ...', { headers: text/html })
OFFLINE_PAGE == [url |-> "You are offline", version |-> 0, ok |-> TRUE]

NoRequest == [method |-> "none", origin |-> "none", url |-> "none"]

NoWorker ==
    [phase |-> "parsed", storage |-> <<>>, keys |-> <<>>, doomed |-> {}, activation |-> "none",
     request |-> NoRequest, net |-> "none", fetched |-> NoResponse, delivered |-> NoResponse,
     puts |-> {}, count |-> 0]

\* caches.keys()
cachesKeys(storage) == [i \in 1..Len(storage) |-> storage[i].name]

cachesHas(storage, name) == \E i \in 1..Len(storage) : storage[i].name = name

\* caches.open(name): the cache is created when there is none of this name
cachesOpen(storage, name) ==
    IF cachesHas(storage, name) THEN storage
    ELSE Append(storage, [name |-> name, entries |-> {}])

\* caches.open(name).then(cache => cache.put(request, response))
cachePut(storage, name, response) ==
    LET opened == cachesOpen(storage, name)
    IN [i \in 1..Len(opened) |->
           IF opened[i].name = name
           THEN [opened[i] EXCEPT !.entries = {e \in @ : e.url # response.url} \cup {response}]
           ELSE opened[i]]

\* caches.delete(name)
cachesDelete(storage, name) == SelectSeq(storage, LAMBDA c : c.name # name)

Hits(storage, url) == {i \in 1..Len(storage) : \E e \in storage[i].entries : e.url = url}

\* caches.match(request): the caches are searched in creation order
cachesMatch(storage, url) ==
    IF Hits(storage, url) = {} THEN NoResponse
    ELSE LET first == CHOOSE i \in Hits(storage, url) : \A j \in Hits(storage, url) : i <= j
         IN CHOOSE e \in storage[first].entries : e.url = url

\* keys.filter((key) => key !== CACHE_NAME), without the filter
staleKeysAll(keys) == {keys[i] : i \in 1..Len(keys)}

\* keys.filter((key) => key !== CACHE_NAME)
staleKeys(keys) == {keys[i] : i \in {j \in 1..Len(keys) : keys[j] # CACHE_NAME}}

\* the catch handler's answer without the cache
fallbackOffline(cached) == OFFLINE_PAGE

\* if (cached) return cached; otherwise the offline page
fallback(cached) == IF cached # NoResponse THEN cached ELSE OFFLINE_PAGE

(***************************************************************************)
(* The component's screens, camera and scanning effect; gen names the     *)
(* component, "App" or "HealthScanApp".  A getUserMedia call, the image    *)
(* load and the analysis timer each settle in a step of their own.  The    *)
(* stream of the n-th startCamera call is stream n, the n-th capture is    *)
(* image n and is analysed by scan n.                                      *)
(***************************************************************************)
MaxStarts == 2

MaxCaptures == 2

NoUI(gen) ==
    [gen |-> gen, mounted |-> TRUE, phase |-> "home", imageUrl |-> 0, calls |-> <<>>,
     streamRef |-> 0, live |-> {}, scans |-> <<>>, detections |-> 0]

(***************************************************************************)
(* Classifier runs: each action applies the classifiers to one pixel.      *)
(***************************************************************************)
ChannelLevels == {0, 10, 16, 20, 28, 40, 60, 120, 200, 255}

\* the channels of a pixel are r/q, g/q, b/q: q = 1 is a raw byte triple, q = 3
\* a corrected (fractional) one
PixelScales == {1, 3}

\* a profile whose hue range wraps across 360 (none of the shipped tables
\* has one; the loop's else-branch is written for it)
WRAP_PROFILE ==
    [label |-> "wrap", hMin |-> 340, hMax |-> 20, sMin |-> 40, sMax |-> 100, lMin |-> 15, lMax |-> 40]

ProbeProfiles ==
    {BLOOD_PROFILES[i] : i \in 1..Len(BLOOD_PROFILES)} \cup {WRAP_PROFILE}

NoMatch == [blood |-> -1, content |-> -1, probe |-> FALSE]

InitMatch ==
    /\ pc = "idle"
    /\ pixel \in [r : ChannelLevels, g : ChannelLevels, b : ChannelLevels, q : PixelScales]
    /\ probe \in ProbeProfiles
    /\ matched = NoMatch
    /\ image = NoImage /\ flashIsOn = FALSE /\ gains = NoGains
    /\ bloodPixels = <<>> /\ cluster = NoCluster
    /\ shade = NoShade /\ sampleType = "none" /\ scan = NoScan /\ result = NoResult /\ previous = NoPrevious /\ sw = NoWorker /\ ui = NoUI("HealthScanApp")

Classify ==
    /\ pc = "idle"
    /\ pc' = "classified"
    /\ matched' = [blood   |-> matchesBlood(pixel.r, pixel.g, pixel.b, pixel.q),
                   content |-> matchesContent(pixel.r, pixel.g, pixel.b, pixel.q),
                   probe   |-> profileMatches(probe, rgbToHsl(pixel.r, pixel.g, pixel.b, pixel.q))]
    /\ UNCHANGED <<pixel, probe, image, flashIsOn, gains, bloodPixels, cluster,
                 shade, sampleType, scan, result, previous, sw, ui>>

NextMatch == Classify

SpecMatch == InitMatch /\ [][NextMatch]_vars

(***************************************************************************)
(* White-balance runs.  The frame is four pixels wide, so that every row   *)
(* contributes one sample, and is made of horizontal bands: a band of dark *)
(* rows followed by bands of the bright colours.                           *)
(***************************************************************************)
MaxDark == 60

WbDark == Rgba(0, 0, 0, 255)

WbBright == << Rgba(140, 140, 140, 255),     \* dull white: 240/140 exceeds 1.6
               Rgba(139, 255, 255, 255),     \* bright, but red below 140
               Rgba(250, 235, 200, 255),     \* warm porcelain
               Rgba(255, 255, 255, 255) >>   \* saturated white

\* rows per bright band: around the 20-sample floor
WbCounts == {0, WB_MIN_SAMPLES - 11, WB_MIN_SAMPLES - 10, WB_MIN_SAMPLES}

RECURSIVE Bands(_, _, _)
Bands(dark, counts, k) ==
    IF k = 0 THEN <<[x |-> 0, y |-> 0, w |-> 4, h |-> dark, c |-> WbDark]>>
    ELSE LET below == Bands(dark, counts, k - 1)
             top == below[Len(below)].y + below[Len(below)].h
         IN  Append(below, [x |-> 0, y |-> top, w |-> 4, h |-> counts[k], c |-> WbBright[k]])

BandImage(dark, counts) ==
    LET b == Bands(dark, counts, Len(WbBright))
        h == b[Len(b)].y + b[Len(b)].h
    IN  [width |-> 4, height |-> h, length |-> 16 * h, bg |-> WbDark, patches |-> b]

InitWB ==
    /\ pc = "idle"
    /\ \E dark \in {0, MaxDark}, counts \in [1..Len(WbBright) -> WbCounts] :
          image = BandImage(dark, counts)
    /\ flashIsOn \in BOOLEAN
    /\ gains = NoGains
    /\ pixel = [r |-> 0, g |-> 0, b |-> 0, q |-> 1] /\ probe = WRAP_PROFILE /\ matched = NoMatch
    /\ bloodPixels = <<>> /\ cluster = NoCluster
    /\ shade = NoShade /\ sampleType = "none" /\ scan = NoScan /\ result = NoResult /\ previous = NoPrevious /\ sw = NoWorker /\ ui = NoUI("HealthScanApp")

Balance ==
    /\ pc = "idle"
    /\ pc' = "balanced"
    /\ gains' = computeWhiteBalanceGains(image, flashIsOn)
    /\ UNCHANGED <<pixel, probe, matched, image, flashIsOn, bloodPixels, cluster,
                 shade, sampleType, scan, result, previous, sw, ui>>

\* the torch is toggled and the same buffer is balanced again; the gains of
\* the first call are kept for comparison
toggleFlash ==
    /\ pc = "balanced" /\ previous = NoPrevious
    /\ flashIsOn' = ~flashIsOn
    /\ previous' = [image |-> image, result |-> [gains |-> gains, flashIsOn |-> flashIsOn]]
    /\ pc' = "idle"
    /\ UNCHANGED <<pixel, probe, matched, image, gains, bloodPixels, cluster,
                   shade, sampleType, scan, result, sw, ui>>

NextWB == Balance \/ toggleFlash

SpecWB == InitWB /\ [][NextWB]_vars

(***************************************************************************)
(* Clustering runs.  The argument is a list of matched pixels in scan      *)
(* order (rows, then columns, as analyzeImageData pushes them) over a      *)
(* frame of 3 x 2 grid cells; it is made of blobs, each the first pixels   *)
(* of one cell's stride-2 samples with the profiles of a pattern.          *)
(***************************************************************************)
MaxBlobs == 3

ClusterWidth == 3 * CLUSTER_GRID
ClusterHeight == 2 * CLUSTER_GRID
ClusterCells == 0..(CeilDiv(ClusterWidth, CLUSTER_GRID) * CeilDiv(ClusterHeight, CLUSTER_GRID) - 1)

BlobPatterns == { <<1, 1>>,                       \* two matches: below the cell threshold
                  <<4, 4, 4>>,                    \* an active cell, too small alone
                  <<1, 1, 1, 1, 1, 1, 1, 1>>,     \* eight Bright Red
                  <<3, 3, 3, 3, 1, 1, 1, 1>> }    \* four Maroon, then four Bright Red

BlobPixels(cell, pat) ==
    {[x |-> CLUSTER_GRID * (cell % CeilDiv(ClusterWidth, CLUSTER_GRID)) + 2 * ((k - 1) % 6),
      y |-> CLUSTER_GRID * (cell \div CeilDiv(ClusterWidth, CLUSTER_GRID)) + 2 * ((k - 1) \div 6),
      profile |-> pat[k]] : k \in 1..Len(pat)}

\* the pixels of a set, as the list a row-major scan pushes
ScanOrder(S, width) ==
    [k \in 1..Cardinality(S) |->
        CHOOSE p \in S : Cardinality({o \in S : o.y * width + o.x <= p.y * width + p.x}) = k]

\* the pixel lists made of at most n blobs
BlobInputs(n) ==
    {ScanOrder(UNION {BlobPixels(c, f[c]) : c \in DOMAIN f}, ClusterWidth) :
        f \in UNION {[cells -> BlobPatterns] :
                        cells \in {cs \in SUBSET ClusterCells : Cardinality(cs) <= n}}}

InitCluster ==
    /\ pc = "idle"
    /\ image = [width |-> ClusterWidth, height |-> ClusterHeight,
                length |-> 4 * ClusterWidth * ClusterHeight, bg |-> Rgba(0, 0, 0, 255), patches |-> <<>>]
    /\ bloodPixels \in BlobInputs(MaxBlobs)
    /\ cluster = NoCluster
    /\ flashIsOn = FALSE /\ gains = NoGains
    /\ pixel = [r |-> 0, g |-> 0, b |-> 0, q |-> 1] /\ probe = WRAP_PROFILE /\ matched = NoMatch
    /\ shade = NoShade /\ sampleType = "none" /\ scan = NoScan /\ result = NoResult /\ previous = NoPrevious /\ sw = NoWorker /\ ui = NoUI("HealthScanApp")

ClusterStart ==
    /\ pc = "idle"
    /\ pc' = "clustering"
    /\ cluster' = clusterInit(bloodPixels, image.width, image.height)
    /\ UNCHANGED <<pixel, probe, matched, image, flashIsOn, gains, bloodPixels,
                 shade, sampleType, scan, result, previous, sw, ui>>

ClusterScan ==
    /\ pc = "clustering" /\ cluster.phase = "scan"
    /\ cluster' = scanStep(cluster)
    /\ pc' = IF cluster'.phase = "done" THEN "clustered" ELSE pc
    /\ UNCHANGED <<pixel, probe, matched, image, flashIsOn, gains, bloodPixels,
                 shade, sampleType, scan, result, previous, sw, ui>>

ClusterFill ==
    /\ pc = "clustering" /\ cluster.phase = "fill"
    /\ cluster' = fillStep(cluster)
    /\ UNCHANGED <<pc, pixel, probe, matched, image, flashIsOn, gains, bloodPixels,
                 shade, sampleType, scan, result, previous, sw, ui>>

ClusterEmit ==
    /\ pc = "clustering" /\ cluster.phase = "emit"
    /\ cluster' = emitStep(cluster)
    /\ UNCHANGED <<pc, pixel, probe, matched, image, flashIsOn, gains, bloodPixels,
                 shade, sampleType, scan, result, previous, sw, ui>>

NextCluster == ClusterStart \/ ClusterScan \/ ClusterFill \/ ClusterEmit

SpecCluster == InitCluster /\ [][NextCluster]_vars

\* the runs checked for termination: pixel lists of at most MaxFill blobs
MaxFill == 2

InitFill ==
    /\ pc = "idle"
    /\ image = [width |-> ClusterWidth, height |-> ClusterHeight,
                length |-> 4 * ClusterWidth * ClusterHeight, bg |-> Rgba(0, 0, 0, 255), patches |-> <<>>]
    /\ bloodPixels \in BlobInputs(MaxFill)
    /\ cluster = NoCluster
    /\ flashIsOn = FALSE /\ gains = NoGains
    /\ pixel = [r |-> 0, g |-> 0, b |-> 0, q |-> 1] /\ probe = WRAP_PROFILE /\ matched = NoMatch
    /\ shade = NoShade /\ sampleType = "none" /\ scan = NoScan /\ result = NoResult
    /\ previous = NoPrevious /\ sw = NoWorker /\ ui = NoUI("HealthScanApp")

\* the call runs to its return: a statement that can execute does
FairCluster == InitFill /\ [][NextCluster]_vars /\ WF_vars(NextCluster)

(***************************************************************************)
(* Analysis runs.  A session analyses a frame and then a retake of it; the *)
(* frames are square, four pixels to a shade cell, with a uniform backdrop *)
(* and rectangular patches: one of a blood colour, a strip of urine colour *)
(* and one of stool colour.  The colours have luminances in simple ratios  *)
(* and the side is fixed, which keeps the corrected channel values of the  *)
(* App generation fractions of small terms.                                *)
(***************************************************************************)
FrameSide == 4 * SHADE_GRID

\* the widest urine strip, in samples
MaxUrine == 3

Backdrops == { Rgba(200, 200, 200, 255),     \* porcelain
               Rgba(128, 128, 128, 255),     \* mid-grey
               Rgba(0, 0, 0, 0) }            \* nothing drawn: transparent

BRIGHT_RED == Rgba(187, 13, 4, 255)
MAROON     == Rgba(73, 15, 12, 255)
URINE      == Rgba(150, 130, 60, 255)
STOOL      == Rgba(133, 89, 35, 255)

BloodPatches ==
    { <<>>,
      <<[x |-> 0, y |-> 0, w |-> 6, h |-> 6, c |-> BRIGHT_RED]>>,        \* 9 samples in the corner
      <<[x |-> 12, y |-> 12, w |-> 6, h |-> 6, c |-> MAROON]>>,          \* 9 samples in the middle
      <<[x |-> 12, y |-> 12, w |-> 12, h |-> 12, c |-> BRIGHT_RED]>>,    \* 36 samples in the middle
      <<[x |-> 0, y |-> 12, w |-> 18, h |-> 12, c |-> BRIGHT_RED]>> }    \* 54 samples across the rim

\* a strip of k urine-coloured samples in the lower middle of the bowl
UrineStrip(k) ==
    IF k = 0 THEN <<>> ELSE <<[x |-> 12, y |-> 24, w |-> 2 * k, h |-> 2, c |-> URINE]>>

STOOL_PATCH == <<[x |-> 12, y |-> 26, w |-> 4, h |-> 4, c |-> STOOL]>>

ContentPatches ==
    {UrineStrip(k) : k \in 0..MaxUrine} \cup {UrineStrip(k) \o STOOL_PATCH : k \in {0, MaxUrine}}

Frames ==
    {[width |-> FrameSide, height |-> FrameSide, length |-> 4 * FrameSide * FrameSide,
      bg |-> b, patches |-> bp \o cp] :
        b \in Backdrops, bp \in BloodPatches, cp \in ContentPatches}

\* buffers a caller should not pass: no pixels at all, or a data array whose
\* length is not 4 * width * height
EdgeFrames ==
    LET full == 4 * FrameSide * FrameSide
        rim  == <<[x |-> 0, y |-> 12, w |-> 18, h |-> 12, c |-> BRIGHT_RED]>>
        frame(w, h, n, b, ps) == [width |-> w, height |-> h, length |-> n, bg |-> b, patches |-> ps]
    IN  { frame(0, 0, 0, Rgba(0, 0, 0, 0), <<>>),                             \* no columns, no rows
          frame(FrameSide, 0, 0, Rgba(0, 0, 0, 0), <<>>),                     \* no rows
          frame(FrameSide, FrameSide, 0, Rgba(200, 200, 200, 255), rim),      \* empty data array
          frame(FrameSide, FrameSide, 3 * (full \div 4), Rgba(200, 200, 200, 255), rim),  \* last rows missing
          frame(FrameSide, FrameSide, full + 16, Rgba(200, 200, 200, 255), rim) }         \* four pixels too many

\* porcelain with a blood-coloured patch, a urine strip and a stool patch
\* whose alpha is 0, just below the threshold, or at it
TranslucentFrames ==
    {[width |-> FrameSide, height |-> FrameSide, length |-> 4 * FrameSide * FrameSide,
      bg |-> Rgba(200, 200, 200, 255),
      patches |-> <<[x |-> 0, y |-> 12, w |-> 18, h |-> 12, c |-> [BRIGHT_RED EXCEPT !.a = a]],
                    [x |-> 12, y |-> 24, w |-> 6, h |-> 2, c |-> [URINE EXCEPT !.a = a]],
                    [x |-> 12, y |-> 26, w |-> 4, h |-> 4, c |-> [STOOL EXCEPT !.a = a]]>>] :
        a \in {0, 127, 128}}

\* a frame narrower than two shade cells per sample: every other shade cell
\* gets no sample
SmallFrames ==
    {[width |-> SHADE_GRID, height |-> SHADE_GRID, length |-> 4 * SHADE_GRID * SHADE_GRID,
      bg |-> b, patches |-> <<[x |-> 2, y |-> 2, w |-> 4, h |-> 4, c |-> MAROON]>>] :
        b \in {Rgba(200, 200, 200, 255), Rgba(0, 0, 0, 0)}}

\* the frames taken with the torch on
FlashFrames == {f \in Frames : f.bg = Rgba(200, 200, 200, 255) /\ Len(f.patches) <= 1}

\* a second photograph: the same buffer again, the same scene against another
\* backdrop, or with more urine in it
Retakes(img) ==
    {img,
     [img EXCEPT !.bg = IF @ = Rgba(128, 128, 128, 255) THEN Rgba(0, 0, 0, 0)
                        ELSE Rgba(128, 128, 128, 255)],
     [img EXCEPT !.patches = @ \o <<[x |-> 8, y |-> 20, w |-> 4, h |-> 4, c |-> URINE]>>]}

InitFrame ==
    /\ pc = "idle"
    /\ image \in Frames \cup EdgeFrames \cup TranslucentFrames \cup SmallFrames
    /\ flashIsOn \in BOOLEAN
    /\ flashIsOn => image \in FlashFrames
    /\ gains = NoGains /\ shade = NoShade /\ sampleType = "none" /\ scan = NoScan
    /\ bloodPixels = <<>> /\ cluster = NoCluster
    /\ result = NoResult /\ previous = NoPrevious /\ sw = NoWorker /\ ui = NoUI("HealthScanApp")
    /\ pixel = [r |-> 0, g |-> 0, b |-> 0, q |-> 1] /\ probe = WRAP_PROFILE /\ matched = NoMatch

\* the user photographs the scene again; nothing of the finished call is
\* cleared here: each call initialises its own locals
Retake ==
    /\ pc = "analyzed" /\ previous = NoPrevious
    /\ \E f \in Retakes(image) : image' = f
    /\ previous' = [image |-> image, result |-> result]
    /\ pc' = "idle"
    /\ result' = NoResult
    /\ UNCHANGED <<pixel, probe, matched, flashIsOn, cluster, gains, shade, sampleType, scan, bloodPixels, sw, ui>>

\* App generation: analyzeImageData, statement by statement
Shade ==
    /\ pc = "balanced"
    /\ pc' = "shaded"
    /\ shade' = buildShadeGrid(image, gains)
    /\ UNCHANGED <<pixel, probe, matched, image, flashIsOn, gains, bloodPixels, cluster,
                   sampleType, scan, result, previous, sw, ui>>

TypeSample ==
    /\ pc = "shaded"
    /\ pc' = "typed"
    /\ sampleType' = classifySampleType(image, gains, shade)
    /\ UNCHANGED <<pixel, probe, matched, image, flashIsOn, gains, bloodPixels, cluster,
                   shade, scan, result, previous, sw, ui>>

AppSample ==
    /\ pc = "typed"
    /\ pc' = "sampled"
    /\ bloodPixels' = appBloodPixels(image, gains, shade)
    /\ UNCHANGED <<pixel, probe, matched, image, flashIsOn, gains, cluster,
                   shade, sampleType, scan, result, previous, sw, ui>>

AppReturn ==
    /\ pc = "sampled"
    /\ pc' = "analyzed"
    /\ result' = [detections |-> clusterDetections(bloodPixels, image.width, image.height),
                  sampleType |-> sampleType]
    /\ UNCHANGED <<pixel, probe, matched, image, flashIsOn, gains, bloodPixels, cluster,
                   shade, sampleType, scan, previous, sw, ui>>

NextApp == Balance \/ Shade \/ TypeSample \/ AppSample \/ AppReturn \/ Retake

SpecApp == InitFrame /\ [][NextApp]_vars

\* HealthScanApp generation: the sampling loop, then the code after it
Scan ==
    /\ pc = "idle"
    /\ pc' = "scanned"
    /\ LET t == scanTally(image)
       IN  /\ scan' = [bowlSamples |-> t.bowlSamples, contentCounts |-> t.contentCounts]
           /\ bloodPixels' = t.bloodPixels
    /\ UNCHANGED <<pixel, probe, matched, image, flashIsOn, gains, cluster,
                   shade, sampleType, result, previous, sw, ui>>

Report ==
    /\ pc = "scanned"
    /\ pc' = "analyzed"
    /\ result' = scanReport(scan, bloodPixels, image.width, image.height)
    /\ UNCHANGED <<pixel, probe, matched, image, flashIsOn, gains, bloodPixels, cluster,
                   shade, sampleType, scan, previous, sw, ui>>

NextScan == Scan \/ Report \/ Retake

SpecScan == InitFrame /\ [][NextScan]_vars

(***************************************************************************)
(* Single-patch runs: a porcelain frame, six pixels to a shade cell, with  *)
(* one 20x20 patch of Bright Red that lies wholly inside the bowl mask.    *)
(***************************************************************************)
PatchFrameSide == 6 * SHADE_GRID

\* the patch is placed at 10..(10 + MaxShift) across and anywhere down the mask
MaxShift == 3

PatchAt(x0, y0) == <<[x |-> x0, y |-> y0, w |-> 20, h |-> 20, c |-> BRIGHT_RED]>>

PatchFrames ==
    {[width |-> PatchFrameSide, height |-> PatchFrameSide, length |-> 4 * PatchFrameSide * PatchFrameSide,
      bg |-> Rgba(200, 200, 200, 255), patches |-> PatchAt(x0, y0)] :
        <<x0, y0>> \in {q \in (10..(10 + MaxShift)) \X (0..(PatchFrameSide - 20)) :
                           \A cx \in {q[1], q[1] + 19}, cy \in {q[2], q[2] + 19} :
                               isInBowlMask(cx, cy, PatchFrameSide, PatchFrameSide)}}

InitPatch ==
    /\ pc = "idle"
    /\ image \in PatchFrames
    /\ flashIsOn = FALSE
    /\ gains = NoGains /\ shade = NoShade /\ sampleType = "none" /\ scan = NoScan
    /\ bloodPixels = <<>> /\ cluster = NoCluster
    /\ result = NoResult /\ previous = NoPrevious /\ sw = NoWorker /\ ui = NoUI("HealthScanApp")
    /\ pixel = [r |-> 0, g |-> 0, b |-> 0, q |-> 1] /\ probe = WRAP_PROFILE /\ matched = NoMatch

SpecPatch == InitPatch /\ [][NextScan]_vars

(***************************************************************************)
(* The service worker's life: install, activate, then fetch events.  Each  *)
(* promise callback is a step of its own.                                  *)
(***************************************************************************)
MaxFetches == 2

SELF == "https://healthscan.example"

Origins == {SELF, "https://cdn.example"}

URLS == {"/", "/assets/index.js"}

\* what the origin's CacheStorage may hold when this version is installed:
\* nothing, the cache of the version before, or that and one of another name
OldCache == [name |-> "healthscan-v0",
             entries |-> {[url |-> "/", version |-> 1, ok |-> TRUE],
                          [url |-> "/assets/index.js", version |-> 1, ok |-> TRUE]}]

OtherCache == [name |-> "healthscan-beta", entries |-> {}]

analysisVars == <<pc, pixel, probe, matched, image, flashIsOn, gains, bloodPixels, cluster,
                  shade, sampleType, scan, result, previous, ui>>

InitSW ==
    /\ pc = "idle" /\ image = NoImage /\ flashIsOn = FALSE
    /\ gains = NoGains /\ shade = NoShade /\ sampleType = "none" /\ scan = NoScan
    /\ bloodPixels = <<>> /\ cluster = NoCluster
    /\ result = NoResult /\ previous = NoPrevious
    /\ pixel = [r |-> 0, g |-> 0, b |-> 0, q |-> 1] /\ probe = WRAP_PROFILE /\ matched = NoMatch
    /\ ui = NoUI("HealthScanApp")
    /\ sw \in {[NoWorker EXCEPT !.storage = st] : st \in {<<>>, <<OldCache>>, <<OldCache, OtherCache>>}}

\* install: caches.open(CACHE_NAME).then(cache => cache.addAll(PRECACHE_FILES));
\* addAll stores all the files or none, and the worker is installed only when
\* the promise is fulfilled
Install ==
    /\ sw.phase = "parsed"
    /\ \E ok \in BOOLEAN :
          LET opened == cachesOpen(sw.storage, CACHE_NAME)
              files == {[url |-> PRECACHE_FILES[i], version |-> 2, ok |-> TRUE] :
                           i \in 1..Len(PRECACHE_FILES)}
          IN sw' = IF ok
                   THEN [sw EXCEPT !.phase = "installed",
                                   !.storage = [i \in 1..Len(opened) |->
                                                   IF opened[i].name = CACHE_NAME
                                                   THEN [opened[i] EXCEPT !.entries = files]
                                                   ELSE opened[i]]]
                   ELSE [sw EXCEPT !.phase = "redundant", !.storage = opened]
    /\ UNCHANGED analysisVars

\* activate: caches.keys().then(keys => Promise.all(keys.filter(...).map(delete)))
Activate ==
    /\ sw.phase = "installed"
    /\ sw' = [sw EXCEPT !.phase = "activating",
                        !.keys = cachesKeys(sw.storage),
                        !.doomed = staleKeys(cachesKeys(sw.storage)),
                        !.activation = "pending"]
    /\ UNCHANGED analysisVars

\* one caches.delete(key) settles; a rejection rejects Promise.all at once,
\* the other deletions go on
DeleteCache ==
    /\ sw.phase \in {"activating", "activated"}
    /\ \E key \in sw.doomed, ok \in BOOLEAN :
          sw' = [sw EXCEPT !.doomed = @ \ {key},
                           !.storage = IF ok THEN cachesDelete(@, key) ELSE @,
                           !.activation = IF ok THEN @ ELSE "rejected"]
    /\ UNCHANGED analysisVars

\* the promise given to event.waitUntil settles; the worker becomes active
Activated ==
    /\ sw.phase = "activating"
    /\ sw.doomed = {} \/ sw.activation = "rejected"
    /\ sw' = [sw EXCEPT !.phase = "activated",
                        !.activation = IF @ = "pending" THEN "fulfilled" ELSE @]
    /\ UNCHANGED analysisVars

\* fetch: requests that are not GET, or not of this origin, are left to the
\* browser; for the others the worker starts fetch(request)
FetchEvent ==
    /\ sw.phase = "activated" /\ sw.net # "pending" /\ sw.net # "rejected"
    /\ sw.count < MaxFetches
    /\ \E method \in {"GET", "POST"}, origin \in Origins, url \in URLS :
          sw' = [sw EXCEPT !.request = [method |-> method, origin |-> origin, url |-> url],
                           !.count = @ + 1,
                           !.net = IF method # "GET" \/ origin # SELF THEN "passed" ELSE "pending",
                           !.fetched = NoResponse,
                           !.delivered = NoResponse]
    /\ UNCHANGED analysisVars

\* fetch(request) is fulfilled: the response is returned, and a clone of an
\* ok response is handed to caches.open(CACHE_NAME).then(cache.put)
NetworkResolve ==
    /\ sw.net = "pending"
    /\ \E ok \in BOOLEAN :
          LET response == [url |-> sw.request.url, version |-> sw.count + 2, ok |-> ok]
          IN sw' = [sw EXCEPT !.net = "resolved",
                              !.fetched = response,
                              !.delivered = response,
                              !.puts = IF ok THEN @ \cup {response} ELSE @]
    /\ UNCHANGED analysisVars

\* fetch(request) is rejected: the catch handler asks caches.match(request)
NetworkReject ==
    /\ sw.net = "pending"
    /\ sw' = [sw EXCEPT !.net = "rejected"]
    /\ UNCHANGED analysisVars

\* caches.match(request) is fulfilled: the stored copy, or the offline page
CacheMatch ==
    /\ sw.net = "rejected"
    /\ sw' = [sw EXCEPT !.net = "answered",
                        !.delivered = fallback(cachesMatch(sw.storage, sw.request.url))]
    /\ UNCHANGED analysisVars

\* a pending cache.put(request, clone) is carried out
CachePut ==
    /\ \E response \in sw.puts :
          sw' = [sw EXCEPT !.storage = cachePut(@, CACHE_NAME, response),
                           !.puts = @ \ {response}]
    /\ UNCHANGED analysisVars

NextSW ==
    \/ Install \/ Activate \/ DeleteCache \/ Activated
    \/ FetchEvent \/ NetworkResolve \/ NetworkReject \/ CacheMatch \/ CachePut

SpecSW == InitSW /\ [][NextSW]_vars

otherVars == <<pc, pixel, probe, matched, image, flashIsOn, gains, bloodPixels, cluster,
               shade, sampleType, scan, result, previous, sw>>

\* the cleanup returned by the scanning effect: cancelled = true and
\* clearTimeout(timeoutId); the App effect returns none
scanCleanup(gen, s) ==
    IF s.stale THEN s
    ELSE [s EXCEPT !.stale = TRUE,
                   !.cancelled = (gen = "HealthScanApp"),
                   !.stage = IF gen = "HealthScanApp" /\ @ = "timer" THEN "cleared" ELSE @]

\* useEffect(..., [phase, imageUrl]): when either changed in a render, the
\* running scan is cleaned up and, in the scanning phase with an image, a new
\* one is started (new Image(), img.src = imageUrl)
scanningEffect(u, v) ==
    IF ~v.mounted \/ (v.phase = u.phase /\ v.imageUrl = u.imageUrl) THEN v
    ELSE LET cleaned == [i \in 1..Len(v.scans) |-> scanCleanup(v.gen, v.scans[i])]
         IN [v EXCEPT !.scans =
                IF v.phase = "scanning" /\ v.imageUrl # 0
                THEN Append(cleaned, [url |-> v.imageUrl, stage |-> "loading",
                                      stale |-> FALSE, cancelled |-> FALSE])
                ELSE cleaned]

\* a set-state call: nothing happens on an unmounted component
setPhase(u, phase) == IF u.mounted THEN [u EXCEPT !.phase = phase] ELSE u

\* stopCamera: the tracks of streamRef.current are stopped, the ref is cleared
stopCamera(u) ==
    IF u.streamRef # 0 THEN [u EXCEPT !.live = @ \ {u.streamRef}, !.streamRef = 0] ELSE u

InitUI ==
    /\ pc = "idle" /\ image = NoImage /\ flashIsOn = FALSE
    /\ gains = NoGains /\ shade = NoShade /\ sampleType = "none" /\ scan = NoScan
    /\ bloodPixels = <<>> /\ cluster = NoCluster
    /\ result = NoResult /\ previous = NoPrevious
    /\ pixel = [r |-> 0, g |-> 0, b |-> 0, q |-> 1] /\ probe = WRAP_PROFILE /\ matched = NoMatch
    /\ sw = NoWorker
    /\ ui \in {NoUI(gen) : gen \in {"App", "HealthScanApp"}}

\* the Start Scan button: startCamera runs up to await getUserMedia
StartCamera ==
    /\ ui.mounted /\ ui.phase = "home" /\ Len(ui.calls) < MaxStarts
    /\ ui' = [ui EXCEPT !.calls = Append(@, [quiet |-> FALSE, stage |-> "pending"])]
    /\ UNCHANGED otherVars

\* the auto-open effect at mount, with ?scan=1: startCamera({ quiet: true })
AutoOpen ==
    /\ ui.gen = "HealthScanApp" /\ ui = NoUI(ui.gen)
    /\ ui' = [ui EXCEPT !.calls = Append(@, [quiet |-> TRUE, stage |-> "pending"])]
    /\ UNCHANGED otherVars

\* getUserMedia is fulfilled: streamRef.current = stream; HealthScanApp plays
\* the video first when there is a video element, then setPhase("camera")
CameraGranted ==
    /\ \E n \in 1..Len(ui.calls) :
          /\ ui.calls[n].stage = "pending"
          /\ LET got == [ui EXCEPT !.streamRef = n, !.live = @ \cup {n}]
             IN ui' = IF ui.gen = "HealthScanApp" /\ ui.mounted /\ ui.phase = "camera"
                      THEN [got EXCEPT !.calls[n].stage = "playing"]
                      ELSE scanningEffect(ui, setPhase([got EXCEPT !.calls[n].stage = "done"],
                                                       "camera"))
    /\ UNCHANGED otherVars

\* await videoRef.current.play() settles, either way: setPhase("camera")
PlaySettled ==
    /\ \E n \in 1..Len(ui.calls) :
          /\ ui.calls[n].stage = "playing"
          /\ ui' = scanningEffect(ui, setPhase([ui EXCEPT !.calls[n].stage = "done"], "camera"))
    /\ UNCHANGED otherVars

\* getUserMedia is rejected: an alert, or for the quiet call setPhase("home")
CameraDenied ==
    /\ \E n \in 1..Len(ui.calls) :
          /\ ui.calls[n].stage = "pending"
          /\ LET failed == [ui EXCEPT !.calls[n].stage = "failed"]
             IN ui' = IF ui.calls[n].quiet THEN scanningEffect(ui, setPhase(failed, "home"))
                      ELSE failed
    /\ UNCHANGED otherVars

\* capture: setImageUrl(url); stopCamera(); setPhase("scanning")
Capture ==
    /\ ui.mounted /\ ui.phase = "camera" /\ Len(ui.scans) < MaxCaptures
    /\ ui' = scanningEffect(ui, setPhase(stopCamera([ui EXCEPT !.imageUrl = Len(ui.scans) + 1]),
                                         "scanning"))
    /\ UNCHANGED otherVars

\* the Cancel button: stopCamera(); setPhase("home")
Cancel ==
    /\ ui.mounted /\ ui.phase = "camera"
    /\ ui' = scanningEffect(ui, setPhase(stopCamera(ui), "home"))
    /\ UNCHANGED otherVars

\* reset: setImageUrl(null); setDetections([]); setPhase("home")
Reset ==
    /\ ui.mounted /\ ui.phase = "results"
    /\ ui' = scanningEffect(ui, setPhase([ui EXCEPT !.imageUrl = 0, !.detections = 0], "home"))
    /\ UNCHANGED otherVars

\* the about screen of App and its Back button
About ==
    /\ ui.mounted /\ ui.gen = "App" /\ ui.phase \in {"home", "about"}
    /\ ui' = scanningEffect(ui, setPhase(ui, IF ui.phase = "home" THEN "about" ELSE "home"))
    /\ UNCHANGED otherVars

\* img.onload: HealthScanApp returns when cancelled or without a canvas; App
\* throws on the canvas of an unmounted component; otherwise setTimeout
ImageLoad ==
    /\ \E n \in 1..Len(ui.scans) :
          /\ ui.scans[n].stage = "loading"
          /\ ui' = [ui EXCEPT !.scans[n].stage =
                       IF ui.scans[n].cancelled \/ ~ui.mounted THEN "dropped" ELSE "timer"]
    /\ UNCHANGED otherVars

\* the timer expires: HealthScanApp returns when cancelled; otherwise the
\* frame is analysed, setDetections, setSampleType, setPhase("results")
TimerExpires ==
    /\ \E n \in 1..Len(ui.scans) :
          /\ ui.scans[n].stage = "timer"
          /\ ui' = IF ui.gen = "HealthScanApp" /\ ui.scans[n].cancelled
                   THEN [ui EXCEPT !.scans[n].stage = "dropped"]
                   ELSE scanningEffect(ui,
                            setPhase([ui EXCEPT !.scans[n].stage = "fired",
                                                !.detections = IF ui.mounted THEN n ELSE @],
                                     "results"))
    /\ UNCHANGED otherVars

\* the component is unmounted: every effect's cleanup runs, stopCamera among them
Unmount ==
    /\ ui.mounted
    /\ ui' = [stopCamera(ui) EXCEPT !.mounted = FALSE,
                                    !.scans = [i \in 1..Len(ui.scans) |->
                                                  scanCleanup(ui.gen, ui.scans[i])]]
    /\ UNCHANGED otherVars

NextUI ==
    \/ StartCamera \/ AutoOpen \/ CameraGranted \/ PlaySettled \/ CameraDenied
    \/ Capture \/ Cancel \/ Reset \/ About \/ ImageLoad \/ TimerExpires \/ Unmount

SpecUI == InitUI /\ [][NextUI]_vars

(***************************************************************************)
(* Claims about analyzeImageData.  The region, the counts and the verdict  *)
(* are restated from the frame, without the sampling loop.                 *)
(***************************************************************************)
Sampled(img) == Evens(img.width) \X Evens(img.height)

ByteAt(img, p) == Data(img, p[2] * img.width + p[1])

\* ((x - cx) / rx)^2 + ((y - cy) / ry)^2 <= 1 with cx = 0.5 w, cy = 0.56 h,
\* rx = 0.38 w, ry = 0.44 h: in integers, (X / RX)^2 <= 1 - (Y / RY)^2 with
\* X = 50 x - 25 w, RX = 19 w, Y = 25 y - 14 h, RY = 11 h
InEllipse(x, y, w, h) ==
    LET X  == 50 * x - 25 * w
        RX == 19 * w
        Y  == 25 * y - 14 * h
        RY == 11 * h
    IN  Y * Y <= RY * RY /\ FracCmp(X * X, RX * RX, RY * RY - Y * Y, RY * RY) <= 0

\* the sampled pixels that are inside the mask and opaque
InRegion(img) ==
    {p \in Sampled(img) : InEllipse(p[1], p[2], img.width, img.height) /\ ByteAt(img, p).a >= 128}

\* the in-mask sampled pixels of content colour k (1 urine, 2 stool)
Coloured(img, k) ==
    {p \in Sampled(img) :
        /\ InEllipse(p[1], p[2], img.width, img.height)
        /\ matchesContent(ByteAt(img, p).r, ByteAt(img, p).g, ByteAt(img, p).b, 1) = k}

\* C1: evidence gating.  If the number of matched blood pixels is below 36, or
\* their ratio to the in-mask opaque sampled pixels is below 0.002, the
\* analysis returns no detections.
C1_EvidenceGating ==
    pc = "analyzed" =>
        LET count  == Len(bloodPixels)
            region == Cardinality(InRegion(image))
        IN  (count < 36 \/ region = 0 \/ 500 * count < region) => result.detections = <<>>

\* the gate at work: matched pixels that would cluster into a Finding, withheld
C1_GateWithholds ==
    /\ pc = "analyzed"
    /\ Len(bloodPixels) < 36
    /\ clusterDetections(bloodPixels, image.width, image.height) # <<>>
    /\ result.detections = <<>>

\* the gate open: enough evidence, and Findings returned
C1_GatePasses ==
    /\ pc = "analyzed"
    /\ Len(bloodPixels) >= 36
    /\ result.detections # <<>>

\* the matched pixels inside Finding b that pass the ellipse test
InsideBox(b) ==
    {k \in 1..Len(bloodPixels) :
        /\ InEllipse(bloodPixels[k].x, bloodPixels[k].y, image.width, image.height)
        /\ b.x <= bloodPixels[k].x /\ bloodPixels[k].x < b.x + b.w
        /\ b.y <= bloodPixels[k].y /\ bloodPixels[k].y < b.y + b.h}

\* C2: region restriction.  No pixel that fails the ellipse test is in the
\* matched-pixel list; every Finding's pixel count is made up of matched pixels
\* that pass the test, and its box is the hull of the grid cells of such pixels.
C2_RegionRestriction ==
    pc = "analyzed" =>
        /\ \A k \in 1..Len(bloodPixels) :
              InEllipse(bloodPixels[k].x, bloodPixels[k].y, image.width, image.height)
        /\ \A d \in 1..Len(result.detections) :
              LET b  == result.detections[d]
                  xs == {bloodPixels[k].x : k \in InsideBox(b)}
                  ys == {bloodPixels[k].y : k \in InsideBox(b)}
              IN  /\ InsideBox(b) # {}
                  /\ b.pixels <= Cardinality(InsideBox(b))
                  /\ b.x = 12 * (MinOf(xs) \div 12) /\ b.x + b.w = 12 * (MaxOf(xs) \div 12) + 12
                  /\ b.y = 12 * (MinOf(ys) \div 12) /\ b.y + b.h = 12 * (MaxOf(ys) \div 12) + 12

\* blood-coloured samples outside the ellipse, and a Finding returned
C2_RimReached ==
    /\ pc = "analyzed"
    /\ result.detections # <<>>
    /\ \E p \in Sampled(image) :
          /\ ~InEllipse(p[1], p[2], image.width, image.height)
          /\ matchesBlood(ByteAt(image, p).r, ByteAt(image, p).g, ByteAt(image, p).b, 1) # 0

\* n / total > 0.02
Exceeds(n, total) == total # 0 /\ 50 * n > total

\* the verdict the claim derives from the two ratios
Verdict(img) ==
    LET region   == Cardinality(InRegion(img))
        hasUrine == Exceeds(Cardinality(Coloured(img, 1) \cap InRegion(img)), region)
        hasStool == Exceeds(Cardinality(Coloured(img, 2) \cap InRegion(img)), region)
    IN  IF hasUrine /\ hasStool THEN "both"
        ELSE IF hasUrine THEN "urine"
        ELSE IF hasStool THEN "stool" ELSE "unknown"

\* C9: sample-type verdict.  The sample type returned is 'both', 'urine',
\* 'stool' or 'unknown' according to which of urineRatio and stoolRatio (content
\* matches over in-mask opaque sampled pixels) exceed 0.02.
C9_SampleTypeVerdict ==
    pc = "analyzed" => result.sampleType = Verdict(image)

\* C10: sample-type monotonicity.  Of two frames of one size with no
\* stool-coloured in-mask pixel, the second with at least as many urine-coloured
\* in-mask pixels as the first, each has verdict 'urine' or 'unknown', and the
\* second is 'urine' if the first is.
C10_SampleTypeMonotone ==
    ( /\ pc = "analyzed" /\ previous # NoPrevious
      /\ image.width = previous.image.width /\ image.height = previous.image.height
      /\ Coloured(previous.image, 2) = {} /\ Coloured(image, 2) = {}
      /\ Cardinality(Coloured(image, 1)) >= Cardinality(Coloured(previous.image, 1)) )
    => /\ previous.result.sampleType \in {"urine", "unknown"}
       /\ result.sampleType \in {"urine", "unknown"}
       /\ previous.result.sampleType = "urine" => result.sampleType = "urine"

\* the first half of C10 alone: never 'stool' or 'both' without stool colour
C10_NoStoolVerdict ==
    (pc = "analyzed" /\ Coloured(image, 2) = {}) => result.sampleType \in {"urine", "unknown"}

\* C11: zero in-region samples.  When no sampled pixel is both inside the mask
\* and opaque, the blood, urine and stool ratios returned are 0 (not NaN), the
\* sample type is 'unknown' and there are no detections.
C11_ZeroInRegionSamples ==
    (pc = "analyzed" /\ InRegion(image) = {}) =>
        /\ result.bloodRatio = Whole(0)
        /\ result.contentSummary.urineRatio = Whole(0)
        /\ result.contentSummary.stoolRatio = Whole(0)
        /\ result.sampleType = "unknown"
        /\ result.detections = <<>>

\* a well-formed frame with opaque blood-coloured pixels, none of them inside
\* the mask: the loop counted nothing and the ratios came back 0
C11_Witness ==
    /\ pc = "analyzed"
    /\ image.length = 4 * image.width * image.height
    /\ InRegion(image) = {} /\ scan.bowlSamples = 0
    /\ \E p \in Sampled(image) :
          /\ ByteAt(image, p).a >= 128
          /\ matchesBlood(ByteAt(image, p).r, ByteAt(image, p).g, ByteAt(image, p).b, 1) # 0
    /\ result.bloodRatio = Whole(0)

\* the frame has no pixel to read: a zero dimension or an empty data array
EmptyInput(img) == img.width = 0 \/ img.height = 0 \/ img.length = 0

\* C12: empty input.  Called with width 0, height 0 or an empty data array,
\* the analysis returns an empty result: no Findings, no matched pixel, zero
\* ratios (where the result carries ratios) and sample type 'unknown'.
C12_EmptyInput ==
    (pc = "analyzed" /\ EmptyInput(image)) =>
        /\ result.detections = <<>>
        /\ Len(bloodPixels) = 0
        /\ result.sampleType = "unknown"
        /\ "bloodRatio" \in DOMAIN result =>
              /\ result.bloodPixels = 0
              /\ result.bloodRatio = Whole(0)
              /\ result.contentSummary = [urineRatio |-> Whole(0), stoolRatio |-> Whole(0)]

\* the three kinds of empty input, analysed
C12_ZeroWidthAnalysed == pc = "analyzed" /\ image.width = 0
C12_ZeroHeightAnalysed == pc = "analyzed" /\ image.width > 0 /\ image.height = 0
C12_EmptyDataAnalysed == pc = "analyzed" /\ image.height > 0 /\ image.length = 0

\* C13: length precondition.  A data array whose length is not
\* 4 * width * height makes the analysis fail fast: no AnalysisResult is
\* returned for it.
C13_LengthPrecondition ==
    image.length # 4 * image.width * image.height => pc # "analyzed"

\* a result computed from missing channel values: the buffer ends before the
\* last rows, the loop counted the missing in-mask pixels, and Findings came back
C13_ComputedFromMissing ==
    /\ pc = "analyzed"
    /\ image.length < 4 * image.width * image.height
    /\ result.detections # <<>>
    /\ \E p \in Sampled(image) : ByteAt(image, p).a = Undefined

UniformGrey(img) ==
    /\ img.width > 0 /\ img.height > 0 /\ img.length = 4 * img.width * img.height
    /\ img.patches = <<>>
    /\ img.bg.a = 255 /\ img.bg.r = img.bg.g /\ img.bg.g = img.bg.b
    /\ 45 * 255 <= 100 * img.bg.r /\ 100 * img.bg.r <= 55 * 255

\* C15: uniform grey image.  A frame that is one opaque mid-grey everywhere
\* gives no Findings and sample type 'unknown'.
C15_UniformGrey ==
    (pc = "analyzed" /\ UniformGrey(image)) =>
        result.detections = <<>> /\ result.sampleType = "unknown"

\* the frame of the example: porcelain, with one 20x20 patch of a Bright Red
\* colour, all of it inside the mask
SinglePatch(img) ==
    /\ img.bg = Rgba(200, 200, 200, 255) /\ Len(img.patches) = 1
    /\ img.length = 4 * img.width * img.height
    /\ LET p == img.patches[1]
       IN  /\ p.w = 20 /\ p.h = 20
           /\ BLOOD_PROFILES[matchesBlood(p.c.r, p.c.g, p.c.b, 1)].label = "Bright Red"
           /\ \A x \in {p.x, p.x + p.w - 1}, y \in {p.y, p.y + p.h - 1} :
                  InEllipse(x, y, img.width, img.height)

CorrectedMatches(img, flash) ==
    LET g  == computeWhiteBalanceGains(img, flash)
        sh == buildShadeGrid(img, g)
    IN  SelectSeq(appBloodPixels(img, g, sh), LAMBDA p : InEllipse(p.x, p.y, img.width, img.height))

\* C17: correct-then-classify.  In the run that applies the mask and tallies
\* content, each in-region pixel is classified on its corrected value, so the
\* matched-pixel list is the list of in-region pixels whose corrected value
\* matches a blood profile, each with that profile.
C17_CorrectThenClassify ==
    (pc = "analyzed" /\ image.length = 4 * image.width * image.height) =>
        bloodPixels = CorrectedMatches(image, flashIsOn)

\* the sampled pixels whose alpha is below 128
Transparent(img) ==
    {p \in Sampled(img) : ByteAt(img, p).a # Undefined /\ ByteAt(img, p).a < 128}

\* the sampled pixels inside the mask that are not transparent
Tallied(img) ==
    {p \in Sampled(img) \ Transparent(img) : InEllipse(p[1], p[2], img.width, img.height)}

ColourOf(img, p) ==
    [content |-> matchesContent(ByteAt(img, p).r, ByteAt(img, p).g, ByteAt(img, p).b,
                                ByteScale(ByteAt(img, p))),
     blood   |-> matchesBlood(ByteAt(img, p).r, ByteAt(img, p).g, ByteAt(img, p).b,
                              ByteScale(ByteAt(img, p)))]

\* C23: alpha skip.  A sampled pixel with alpha below 128, inside the mask or
\* not, is counted neither in the in-region sample count nor in the urine and
\* stool tallies nor among the matched blood pixels: the three are made up of
\* the other in-mask samples alone.
C23_AlphaSkip ==
    pc = "analyzed" =>
        /\ scan.bowlSamples = Cardinality(Tallied(image))
        /\ scan.contentCounts.urine =
               Cardinality({p \in Tallied(image) : ColourOf(image, p).content = 1})
        /\ scan.contentCounts.stool =
               Cardinality({p \in Tallied(image) : ColourOf(image, p).content = 2})
        /\ \A k \in 1..Len(bloodPixels) :
               <<bloodPixels[k].x, bloodPixels[k].y>> \notin Transparent(image)

\* transparent in-mask samples of blood, urine and stool colour, left out
C23_Witness ==
    /\ pc = "analyzed"
    /\ \A want \in {[content |-> 0, blood |-> 1], [content |-> 1, blood |-> 0],
                    [content |-> 2, blood |-> 0]} :
          \E p \in Transparent(image) :
              /\ InEllipse(p[1], p[2], image.width, image.height)
              /\ ColourOf(image, p) = want
    /\ scan.bowlSamples > 0
    /\ bloodPixels = <<>> /\ scan.contentCounts = [urine |-> 0, stool |-> 0]

\* the same patches at alpha 128 are counted
C23_OpaqueCounted ==
    /\ pc = "analyzed"
    /\ image \in TranslucentFrames
    /\ bloodPixels # <<>> /\ scan.contentCounts.urine > 0 /\ scan.contentCounts.stool > 0

\* the App component: no transparent sampled pixel is among the matched pixels
C23_AppAlphaSkip ==
    pc = "analyzed" =>
        \A k \in 1..Len(bloodPixels) :
            <<bloodPixels[k].x, bloodPixels[k].y>> \notin Transparent(image)

\* v held between lo and hi
Clamped(v, lo, hi) == IF Lt(v, lo) THEN lo ELSE IF Gt(v, hi) THEN hi ELSE v

\* the sampling loop has applied the shade grid, and every sampled pixel was
\* read inside the data array
ShadeApplied ==
    /\ pc = "sampled"
    /\ image.length >= 4 * image.width * image.height

\* C24: shade correction bounds.  For every sampled pixel the shade cell index
\* is within 0..63; the shade factor is globalAvg / cellAvg held between 0.7
\* and 1.5, and with a cell average of 0 it is still within these bounds; a
\* cell without samples has average 128; each corrected channel is in [0, 255].
C24_ShadeCorrectionBounds ==
    ShadeApplied =>
        /\ \A i \in 0..(SHADE_GRID * SHADE_GRID - 1) :
              shadeMembers(image, i) = {} => shade.cellAvg[i] = Whole(128)
        /\ \A p \in Sampled(image) :
              LET idx == shadeIndex(image, p[1], p[2])
                  sf  == shadeFactor(shade, idx)
                  px  == corrected(image, gains, shade, p[1], p[2])
              IN  /\ idx \in 0..63
                  /\ Leq(<<7, 10>>, sf) /\ Leq(sf, <<3, 2>>)
                  /\ shade.cellAvg[idx][1] # 0 =>
                         sf = Clamped(Norm(shade.globalAvg[1] * shade.cellAvg[idx][2],
                                           shade.globalAvg[2] * shade.cellAvg[idx][1]),
                                      <<7, 10>>, <<3, 2>>)
                  /\ \A v \in {px.r, px.g, px.b} : Leq(Whole(0), v) /\ Leq(v, Whole(255))

\* both bounds of the factor bind, a cell average is 0, and a cell is empty
C24_Witness ==
    /\ ShadeApplied
    /\ \E p \in Sampled(image), q \in Sampled(image) :
          /\ shadeFactor(shade, shadeIndex(image, p[1], p[2])) = <<3, 2>>
          /\ shadeFactor(shade, shadeIndex(image, q[1], q[2])) = <<7, 10>>
    /\ \E p \in Sampled(image) : shade.cellAvg[shadeIndex(image, p[1], p[2])] = Whole(0)

C24_EmptyCell ==
    /\ ShadeApplied
    /\ image.width > 0
    /\ \E i \in 0..(SHADE_GRID * SHADE_GRID - 1) : shadeMembers(image, i) = {}

C24_FactorInside ==
    /\ ShadeApplied
    /\ \E p \in Sampled(image) :
          LET sf == shadeFactor(shade, shadeIndex(image, p[1], p[2]))
          IN  Lt(<<7, 10>>, sf) /\ Lt(sf, <<3, 2>>) /\ sf # Whole(1)

\* read past the data array the factor is NaN: neither bound holds
C24_ShortBuffer ==
    pc = "sampled" =>
        \A p \in Sampled(image) :
            LET sf == shadeFactor(shade, shadeIndex(image, p[1], p[2]))
            IN  Leq(<<7, 10>>, sf) /\ Leq(sf, <<3, 2>>)

(***************************************************************************)
(* Claims about the service worker.                                        *)
(***************************************************************************)
Stored(storage, url) ==
    {e \in UNION {storage[i].entries : i \in 1..Len(storage)} : e.url = url}

\* C19: network-first.  For a same-origin GET request the answer is the
\* network's whenever fetch is fulfilled, whatever the caches hold; a stored
\* copy is the answer only after fetch was rejected; the offline page is the
\* answer only after fetch was rejected and no cache holds the request.
C19_NetworkFirst ==
    [][/\ (sw.net = "pending" /\ sw'.net = "resolved") =>
              /\ sw'.delivered = sw'.fetched
              /\ sw'.fetched.url = sw.request.url
              /\ sw'.fetched \notin Stored(sw.storage, sw.request.url)
       /\ (sw'.delivered # sw.delivered /\ sw'.delivered # NoResponse) =>
              /\ sw.request.method = "GET" /\ sw.request.origin = SELF
              /\ sw'.delivered # sw'.fetched =>
                     /\ sw.net = "rejected"
                     /\ IF Stored(sw.storage, sw.request.url) = {}
                        THEN sw'.delivered = OFFLINE_PAGE
                        ELSE sw'.delivered \in Stored(sw.storage, sw.request.url)]_vars

\* fetch was fulfilled while a copy was stored, and the fresh answer went out
C19_Witness ==
    /\ sw.net = "resolved"
    /\ Stored(sw.storage, sw.request.url) # {}
    /\ sw.delivered = sw.fetched
    /\ sw.delivered \notin Stored(sw.storage, sw.request.url)

C19_CachedCopyServed ==
    sw.net = "answered" /\ sw.delivered \in Stored(sw.storage, sw.request.url)

C19_OfflinePageServed ==
    sw.net = "answered" /\ sw.delivered = OFFLINE_PAGE

\* C20: activation.  Every cache named otherwise than CACHE_NAME is deleted
\* and the one named CACHE_NAME never is: once the promise given to waitUntil
\* is fulfilled, the cache of this version is the only one left.
C20_ActivationCleansCaches ==
    /\ sw.phase \in {"installed", "activating", "activated"} =>
           cachesHas(sw.storage, CACHE_NAME)
    /\ sw.phase \in {"activating", "activated"} =>
           \A i \in 1..Len(sw.keys) :
               sw.keys[i] # CACHE_NAME =>
                   \/ sw.keys[i] \in sw.doomed
                   \/ ~cachesHas(sw.storage, sw.keys[i])
                   \/ sw.activation = "rejected"
    /\ sw.activation = "fulfilled" => cachesKeys(sw.storage) = <<CACHE_NAME>>

\* two older caches were there at activation, and only this version's is left
C20_Witness ==
    /\ sw.activation = "fulfilled"
    /\ Len(sw.keys) = 3
    /\ cachesKeys(sw.storage) = <<CACHE_NAME>>

(***************************************************************************)
(* Claims about the component: the scanning effect and the camera.         *)
(***************************************************************************)
\* a callback of scan n sets detections, sample type and phase in this step
Sets(n) == ui.scans[n].stage # "fired" /\ ui'.scans[n].stage = "fired"

\* C21: scan cancellation.  Once the scanning effect of a scan was cleaned up
\* (the component unmounted, or phase or imageUrl changed), no callback of
\* that scan sets detections, sample type or phase, whatever the order of
\* cleanup, image load and timer expiry.
C21_ScanCancellation ==
    [][\A n \in 1..Len(ui.scans) : ui.scans[n].stale => ~Sets(n)]_vars

\* the same for the HealthScanApp component alone
C21_HealthScanAppCancellation ==
    [][ui.gen = "HealthScanApp" =>
           \A n \in 1..Len(ui.scans) : ui.scans[n].stale => ~Sets(n)]_vars

\* and for the App component while it is mounted
C21_AppMountedCancellation ==
    [][(ui.gen = "App" /\ ui.mounted) =>
           \A n \in 1..Len(ui.scans) : ui.scans[n].stale => ~Sets(n)]_vars

\* HealthScanApp: a scan was cleaned up with its timer running, or its image loading
C21_TimerCleared ==
    \E n \in 1..Len(ui.scans) : ui.scans[n].stage = "cleared"

C21_LoadDropped ==
    \E n \in 1..Len(ui.scans) : ui.scans[n].stage = "dropped" /\ ui.mounted

\* C30: camera stream lifecycle.  Every stream acquired by startCamera can
\* still be stopped, being the one streamRef holds, and none is live in the
\* scanning or results phase, also when startCamera is called again before
\* the first getUserMedia call settled or the user moves on meanwhile.
C30_CameraStreamLifecycle ==
    /\ \A n \in ui.live : ui.streamRef = n
    /\ ui.phase \in {"scanning", "results"} => ui.live = {}

\* the second half alone, for each component
C30_AppNoLiveStreamInScan ==
    (ui.gen = "App" /\ ui.phase \in {"scanning", "results"}) => ui.live = {}

C30_HealthScanAppNoLiveStreamInScan ==
    (ui.gen = "HealthScanApp" /\ ui.phase \in {"scanning", "results"}) => ui.live = {}

\* with startCamera called once and the component mounted, the claim holds
C30_SingleCall ==
    (Len(ui.calls) <= 1 /\ ui.mounted) => C30_CameraStreamLifecycle

(***************************************************************************)
(* Claims about clustering.  Cells, activity, connectivity and totals are  *)
(* restated from the pixel list, without the flood fill.                   *)
(***************************************************************************)
GridW == CeilDiv(image.width, 12)
GridH == CeilDiv(image.height, 12)
GridCells == 0..(GridW * GridH - 1)

PixelsIn(S) ==
    {k \in 1..Len(bloodPixels) :
        (bloodPixels[k].y \div 12) * GridW + (bloodPixels[k].x \div 12) \in S}

ActiveCells == {i \in GridCells : Cardinality(PixelsIn({i})) >= 3}

\* two cells that share an edge
EdgeAdjacent(i, j) ==
    LET ci == i % GridW
        cj == j % GridW
        ri == i \div GridW
        rj == j \div GridW
    IN  \/ ri = rj /\ (ci = cj + 1 \/ cj = ci + 1)
        \/ ci = cj /\ (ri = rj + 1 \/ rj = ri + 1)

\* the active cells linked to S by chains of edge-adjacent active cells
RECURSIVE Linked(_)
Linked(S) ==
    LET T == S \cup {j \in ActiveCells : \E i \in S : EdgeAdjacent(i, j)}
    IN  IF T = S THEN S ELSE Linked(T)

Components == {Linked({i}) : i \in ActiveCells}

\* the groups that are reported: at least 8 matched pixels in their cells
Groups == {c \in Components : Cardinality(PixelsIn(c)) >= 8}

BoxOf(c) ==
    LET cols == {i % GridW : i \in c}
        rows == {i \div GridW : i \in c}
    IN  [x |-> 12 * MinOf(cols), y |-> 12 * MinOf(rows),
         w |-> 12 * (MaxOf(cols) - MinOf(cols) + 1), h |-> 12 * (MaxOf(rows) - MinOf(rows) + 1)]

Geometry(b) == [x |-> b.x, y |-> b.y, w |-> b.w, h |-> b.h]

\* box k of the result is the Finding of group c
FindingOf(k, c) ==
    /\ Geometry(cluster.boxes[k]) = BoxOf(c)
    /\ cluster.boxes[k].pixels = Cardinality(PixelsIn(c))

\* C7: cluster separation.  Two above-threshold groups of matched pixels that
\* no chain of edge-adjacent active cells joins are reported as two distinct
\* Findings, one per group (its own bounding box and pixel count); no Finding
\* merges groups: there are as many Findings as groups.
C7_ClusterSeparation ==
    pc = "clustered" =>
        /\ \A c1 \in Groups, c2 \in Groups :
              c1 # c2 => \E k1 \in 1..Len(cluster.boxes), k2 \in 1..Len(cluster.boxes) :
                            k1 # k2 /\ FindingOf(k1, c1) /\ FindingOf(k2, c2)
        /\ Len(cluster.boxes) = Cardinality(Groups)

\* two groups with a cell of one or two matches (below the threshold) beside
\* both, reported as two Findings
C7_Witness ==
    /\ pc = "clustered"
    /\ Cardinality(Groups) = 2
    /\ \E i \in GridCells \ ActiveCells :
          /\ PixelsIn({i}) # {}
          /\ \A c \in Groups : \E j \in c : EdgeAdjacent(i, j)
    /\ Len(cluster.boxes) = 2

\* the matched pixels of group c with profile l
TallyOf(c, l) == Cardinality({k \in PixelsIn(c) : bloodPixels[k].profile = l})

TopProfiles(c) ==
    {l \in 1..Len(BLOOD_PROFILES) : \A o \in 1..Len(BLOOD_PROFILES) : TallyOf(c, o) <= TallyOf(c, l)}

\* C8 (as claimed): the label of every Finding is the profile with the highest
\* tally in its component, and among profiles that tie for the highest tally
\* the one declared first in BLOOD_PROFILES.
C8_DominantTieBreak ==
    pc = "clustered" =>
        \A k \in 1..Len(cluster.boxes) : \A c \in Groups :
            FindingOf(k, c) =>
                cluster.boxes[k].label = BLOOD_PROFILES[MinOf(TopProfiles(c))].label

\* what the code does hold to: the label has the highest tally of its component
C8_HighestTally ==
    pc = "clustered" =>
        \A k \in 1..Len(cluster.boxes) : \A c \in Groups :
            FindingOf(k, c) =>
                \E l \in TopProfiles(c) : cluster.boxes[k].label = BLOOD_PROFILES[l].label

\* the Finding the App component's clusterDetections pushes for box b: the
\* same cells and count, the fields of its own profile table
appFinding(b) ==
    LET prof == APP_BLOOD_PROFILES[CHOOSE i \in 1..Len(BLOOD_PROFILES) :
                                       BLOOD_PROFILES[i].label = b.label]
    IN  [x |-> b.x, y |-> b.y, w |-> b.w, h |-> b.h, label |-> prof.label,
         severity |-> prof.severity, hatchStyle |-> prof.hatchStyle, pixels |-> b.pixels]

Profiles(table) == {table[i] : i \in 1..Len(table)}

\* C22: redundant severity encoding.  Every Finding of clusterDetections has
\* a text label, a severity tier and a hatch style; every tier of a blood
\* profile has a shape glyph and a text label in the severity table; two
\* distinct tiers differ in shape and in hatch style.
C22_RedundantSeverityEncoding ==
    pc = "clustered" =>
        /\ \A k \in 1..Len(cluster.boxes) :
              {"label", "severity", "hatchStyle"} \subseteq DOMAIN cluster.boxes[k]
        /\ \A p \in Profiles(BLOOD_PROFILES) : p.severity \in DOMAIN SEVERITY_INFO
        /\ \A p \in Profiles(BLOOD_PROFILES), q \in Profiles(BLOOD_PROFILES) :
              p.severity # q.severity =>
                  /\ SEVERITY_INFO[p.severity].icon.shape # SEVERITY_INFO[q.severity].icon.shape
                  /\ "hatchStyle" \in DOMAIN p /\ "hatchStyle" \in DOMAIN q
                  /\ p.hatchStyle # q.hatchStyle

\* the same of the App component: its Findings, profiles and severity table
C22_AppEncoding ==
    pc = "clustered" =>
        /\ \A k \in 1..Len(cluster.boxes) :
              {"label", "severity", "hatchStyle"} \subseteq DOMAIN appFinding(cluster.boxes[k])
        /\ \A p \in Profiles(APP_BLOOD_PROFILES) : p.severity \in DOMAIN SEVERITY_META
        /\ \A p \in Profiles(APP_BLOOD_PROFILES), q \in Profiles(APP_BLOOD_PROFILES) :
              p.severity # q.severity =>
                  /\ SEVERITY_META[p.severity].shape # SEVERITY_META[q.severity].shape
                  /\ SEVERITY_META[p.severity].label # SEVERITY_META[q.severity].label
                  /\ p.hatchStyle # q.hatchStyle

\* the icons and the missing hatch style apart, the HealthScanApp Findings
\* have a label and a tier that the severity table knows
C22_LabelAndTier ==
    pc = "clustered" =>
        \A k \in 1..Len(cluster.boxes) :
            /\ {"label", "severity"} \subseteq DOMAIN cluster.boxes[k]
            /\ cluster.boxes[k].severity \in DOMAIN SEVERITY_INFO

C22_FindingReturned == pc = "clustered" /\ Len(cluster.boxes) >= 1

\* C25: noise thresholds.  Every Finding is built from grid cells of at least
\* 3 matched pixels only; its pixels field is the sum of the counts of exactly
\* the cells of its component, and at least 8; the matched pixels of cells
\* with fewer than 3 are counted in no Finding and widen no box.
C25_NoiseThresholds ==
    pc = "clustered" =>
        /\ \A k \in 1..Len(cluster.boxes) :
              /\ cluster.boxes[k].pixels >= 8
              /\ \E c \in Components :
                    /\ \A i \in c : /\ cluster.grid[i].count >= 3
                                    /\ cluster.grid[i].count = Cardinality(PixelsIn({i}))
                    /\ cluster.boxes[k].pixels = Cardinality(PixelsIn(c))
                    /\ Geometry(cluster.boxes[k]) = BoxOf(c)
        /\ \A c \in Components :
              Cardinality(PixelsIn(c)) < 8 => \A k \in 1..Len(cluster.boxes) : ~FindingOf(k, c)

\* a Finding beside a cell of one or two matches that lies outside its box,
\* and an active cell whose component stays below 8 and is dropped
C25_Witness ==
    /\ pc = "clustered"
    /\ \E k \in 1..Len(cluster.boxes), c \in Groups :
          /\ FindingOf(k, c)
          /\ \E i \in GridCells \ ActiveCells :
                /\ PixelsIn({i}) # {}
                /\ \E j \in c : EdgeAdjacent(i, j)
                /\ BoxOf(c \cup {i}) # BoxOf(c)
    /\ \E c \in Components \ Groups : TRUE

\* two cells that touch at a corner only
CornerAdjacent(i, j) ==
    LET dc == (i % GridW) - (j % GridW)
        dr == (i \div GridW) - (j \div GridW)
    IN  dc * dc = 1 /\ dr * dr = 1

\* C26: 4-directional connectivity.  Two active cells are in one component if
\* and only if a chain of active cells, each sharing an edge with the next,
\* links them: the fill started at a seed dequeues cells linked to the seed
\* only and ends with all of them, and active cells that merely touch at a
\* corner are in different components.
C26_FourConnectivity ==
    /\ (pc = "clustering" /\ cluster.phase = "fill") =>
           \A k \in 1..Len(cluster.queue) : cluster.queue[k] \in Linked({cluster.idx})
    /\ (pc = "clustering" /\ cluster.phase = "emit") =>
           /\ Linked({cluster.idx}) \subseteq cluster.visited
           /\ cluster.totalPixels = Cardinality(PixelsIn(Linked({cluster.idx})))
           /\ [x |-> 12 * cluster.minX, y |-> 12 * cluster.minY,
               w |-> 12 * (cluster.maxX - cluster.minX + 1),
               h |-> 12 * (cluster.maxY - cluster.minY + 1)] = BoxOf(Linked({cluster.idx}))
    /\ pc = "clustered" =>
           /\ cluster.visited = ActiveCells
           /\ \A k \in 1..Len(cluster.boxes) : \E c \in Groups : FindingOf(k, c)

\* two components of eight matches each whose cells touch at a corner, and two
\* Findings
C26_Witness ==
    /\ pc = "clustered"
    /\ \E c1 \in Groups, c2 \in Groups :
          /\ c1 # c2
          /\ \E i \in c1, j \in c2 : CornerAdjacent(i, j)
    /\ Len(cluster.boxes) = 2

\* a component of more than one cell
C26_ChainJoined ==
    /\ pc = "clustered"
    /\ \E c \in Groups : Cardinality(c) >= 3 /\ \E k \in 1..Len(cluster.boxes) : FindingOf(k, c)

IsActive(i) == cluster.grid[i].count >= 3

RECURSIVE SumPixels(_, _)
SumPixels(boxes, k) == IF k > Len(boxes) THEN 0 ELSE boxes[k].pixels + SumPixels(boxes, k + 1)

\* C27: flood-fill termination.  clusterDetections returns; over the run each
\* active cell is put in the queue once and taken out once, and no inactive
\* cell is ever queued; so each active cell is in one component and the
\* pixels fields of the Findings add up to at most the number of matched
\* pixels passed in.
C27_FloodFillTermination ==
    /\ <>(pc = "clustered")
    /\ [][pc' \in {"clustering", "clustered"} =>
             /\ \A k \in 1..Len(cluster'.queue) :
                   /\ IsActive(cluster'.queue[k])
                   /\ cluster'.queue[k] \in cluster'.visited
                   /\ \A j \in 1..Len(cluster'.queue) : cluster'.queue[j] = cluster'.queue[k] => j = k
             /\ pc = "clustering" =>
                   /\ cluster.visited \subseteq cluster'.visited
                   /\ \A k \in 1..Len(cluster'.queue) :
                         cluster'.queue[k] \in cluster.visited =>
                             \E j \in 1..Len(cluster.queue) : cluster.queue[j] = cluster'.queue[k]
             /\ pc' = "clustered" =>
                   /\ cluster'.queue = <<>>
                   /\ cluster'.visited = {i \in DOMAIN cluster'.grid : cluster'.grid[i].count >= 3}
                   /\ SumPixels(cluster'.boxes, 1) <= Len(bloodPixels)]_vars

\* a run over two active cells, with matched pixels that no Finding counts
C27_Witness ==
    /\ pc = "clustered"
    /\ Cardinality(cluster.visited) = 2
    /\ Len(cluster.boxes) >= 1
    /\ SumPixels(cluster.boxes, 1) < Len(bloodPixels)

\* a component of two cells went through the queue
C27_TwoCellFill ==
    /\ pc = "clustered"
    /\ \E k \in 1..Len(cluster.boxes) : cluster.boxes[k].w + cluster.boxes[k].h = 36

\* the steps left are bounded: a natural number that every step of the run
\* lowers, and a step is possible until the return
Variant(st) ==
    3 * (2 * Cardinality({i \in DOMAIN st.grid : st.grid[i].count >= 3} \ st.visited)
           + Len(st.queue))
      + (IF st.phase \in {"emit", "fill"} THEN 2 ELSE IF st.phase = "scan" THEN 1 ELSE 0)

C27_VariantDecreases ==
    [][pc = "clustering" => (pc' \in {"clustering", "clustered"} /\ Variant(cluster') < Variant(cluster))]_vars

C27_NeverStuck == pc = "clustering" => ENABLED NextCluster

\* C28: bounding box.  For every Finding x = 12 minCellX, y = 12 minCellY,
\* w = 12 (maxCellX - minCellX + 1), h = 12 (maxCellY - minCellY + 1) over the
\* cells of its component, and every matched pixel counted in it lies in
\* x <= px < x + w, y <= py < y + h.
C28_BoundingBox ==
    pc = "clustered" =>
        \A k \in 1..Len(cluster.boxes) :
            \E c \in Groups :
                LET b    == cluster.boxes[k]
                    cols == {i % GridW : i \in c}
                    rows == {i \div GridW : i \in c}
                IN  /\ b.pixels = Cardinality(PixelsIn(c))
                    /\ b.x = 12 * MinOf(cols) /\ b.w = 12 * (MaxOf(cols) - MinOf(cols) + 1)
                    /\ b.y = 12 * MinOf(rows) /\ b.h = 12 * (MaxOf(rows) - MinOf(rows) + 1)
                    /\ \A p \in PixelsIn(c) :
                          /\ b.x <= bloodPixels[p].x /\ bloodPixels[p].x < b.x + b.w
                          /\ b.y <= bloodPixels[p].y /\ bloodPixels[p].y < b.y + b.h

\* a Finding over two columns and two rows of cells
C28_Witness ==
    /\ pc = "clustered"
    /\ \E k \in 1..Len(cluster.boxes) :
          cluster.boxes[k].w >= 24 /\ cluster.boxes[k].h >= 24

(***************************************************************************)
(* Claims about white balance.  The percentile, the qualifying pixels and  *)
(* the medians are restated over index sets, without sorting.              *)
(***************************************************************************)
WbIdx == {i \in 0..(DataPixels(image) - 1) : i % 4 = 0}

WbLum(i) == Lum1000(Data(image, i).r, Data(image, i).g, Data(image, i).b)

\* the value at 0-based position k of the ascending arrangement of f over S
KthOf(S, f(_), k) ==
    CHOOSE v \in {f(i) : i \in S} :
        /\ Cardinality({i \in S : f(i) < v}) <= k
        /\ Cardinality({i \in S : f(i) <= v}) > k

Qualifying ==
    IF WbIdx = {} THEN {}
    ELSE LET p85 == KthOf(WbIdx, WbLum, (Cardinality(WbIdx) * 85) \div 100)
         IN  {i \in WbIdx : /\ WbLum(i) >= p85
                            /\ Data(image, i).r >= 140 /\ Data(image, i).g >= 140
                            /\ Data(image, i).b >= 140}

\* twice the median of f over the non-empty set S
TwiceMedian(S, f(_)) ==
    LET n == Cardinality(S)
    IN  IF n % 2 = 1 THEN 2 * KthOf(S, f, n \div 2)
        ELSE KthOf(S, f, (n \div 2) - 1) + KthOf(S, f, n \div 2)

\* g = clamp(target / (m2 / 2), 0.6, 1.6)
IsClampedQuotient(g, target, m2) ==
    IF 10 * 2 * target > 16 * m2 THEN 10 * g[1] = 16 * g[2]
    ELSE IF 10 * 2 * target < 6 * m2 THEN 10 * g[1] = 6 * g[2]
    ELSE g[1] * m2 = 2 * target * g[2]

ChR(i) == Data(image, i).r
ChG(i) == Data(image, i).g
ChB(i) == Data(image, i).b

Target == IF flashIsOn THEN 250 ELSE 240

GainInRange(g) == g[2] > 0 /\ 6 * g[2] <= 10 * g[1] /\ 10 * g[1] <= 16 * g[2]

\* C3: gain clamping.  For every buffer (all-white, all-black and empty ones
\* included) and either flash setting, each of gainR, gainG, gainB returned by
\* computeWhiteBalanceGains is a number in [0.6, 1.6].
C3_GainsClamped ==
    pc = "balanced" =>
        GainInRange(gains.gainR) /\ GainInRange(gains.gainG) /\ GainInRange(gains.gainB)

\* a frame whose white median is so low that target/median exceeds 1.6: the
\* gain returned is the bound
C3_Witness ==
    /\ pc = "balanced"
    /\ Cardinality(Qualifying) >= 20
    /\ 10 * 2 * Target > 16 * TwiceMedian(Qualifying, ChR)
    /\ gains.gainR = <<8, 5>>

\* C4: degraded white balance.  With fewer than 20 qualifying samples
\* (luminance at or above the 85th percentile, R, G and B all >= 140) the gains
\* are exactly (1, 1, 1); with 20 or more, each gain is
\* clamp(target / median of the qualifying pixels' channel, 0.6, 1.6).
C4_DegradedWhiteBalance ==
    pc = "balanced" =>
        \A q \in {Qualifying} :
            IF Cardinality(q) < 20
            THEN gains = identityGains
            ELSE /\ IsClampedQuotient(gains.gainR, Target, TwiceMedian(q, ChR))
                 /\ IsClampedQuotient(gains.gainG, Target, TwiceMedian(q, ChG))
                 /\ IsClampedQuotient(gains.gainB, Target, TwiceMedian(q, ChB))

\* exactly 20 pixels qualify, of two colours, and the gains are the clamped
\* quotients (not the identity)
C4_Witness ==
    /\ pc = "balanced"
    /\ Cardinality(Qualifying) = 20
    /\ Cardinality({Data(image, i) : i \in Qualifying}) = 2
    /\ gains # identityGains
    /\ IsClampedQuotient(gains.gainB, Target, TwiceMedian(Qualifying, ChB))

\* 19 pixels qualify: the degraded mode
C4_DegradedReached ==
    pc = "balanced" /\ Cardinality(Qualifying) = 19 /\ gains = identityGains

\* p >= q for two gains
GainGeq(p, q) == p[1] * q[2] >= q[1] * p[2]

\* C18: flash-aware target.  Of the gains computed for one buffer with the
\* flash on and with it off, each flash-on gain is at least the flash-off one,
\* and the two differ only through the target (250 against 240): both are the
\* identity, or both are the clamped quotients over the same medians of the
\* same qualifying pixels.
C18_FlashAwareTarget ==
    (pc = "balanced" /\ previous # NoPrevious /\ previous.image = image) =>
        LET on  == IF flashIsOn THEN gains ELSE previous.result.gains
            off == IF flashIsOn THEN previous.result.gains ELSE gains
        IN  /\ previous.result.flashIsOn # flashIsOn
            /\ GainGeq(on.gainR, off.gainR) /\ GainGeq(on.gainG, off.gainG) /\ GainGeq(on.gainB, off.gainB)
            /\ \A q \in {Qualifying} :
                  IF Cardinality(q) < 20
                  THEN on = identityGains /\ off = identityGains
                  ELSE \A m \in {<<TwiceMedian(q, ChR), TwiceMedian(q, ChG), TwiceMedian(q, ChB)>>} :
                          /\ IsClampedQuotient(on.gainR, 250, m[1])
                          /\ IsClampedQuotient(off.gainR, 240, m[1])
                          /\ IsClampedQuotient(on.gainG, 250, m[2])
                          /\ IsClampedQuotient(off.gainG, 240, m[2])
                          /\ IsClampedQuotient(on.gainB, 250, m[3])
                          /\ IsClampedQuotient(off.gainB, 240, m[3])

\* one buffer balanced under both settings, with a blue gain that is inside
\* the clamp and strictly larger with the flash on
C18_Witness ==
    /\ pc = "balanced" /\ previous # NoPrevious /\ previous.image = image
    /\ LET on  == IF flashIsOn THEN gains ELSE previous.result.gains
           off == IF flashIsOn THEN previous.result.gains ELSE gains
       IN  /\ ~GainGeq(off.gainB, on.gainB)
           /\ on.gainB # <<8, 5>>

\* one buffer balanced under both settings, red gain at the upper clamp in both
C18_ClampedAlike ==
    /\ pc = "balanced" /\ previous # NoPrevious
    /\ gains.gainR = <<8, 5>> /\ previous.result.gains.gainR = <<8, 5>>

\* g >= target / 255
AtLeastFloor(g, target) == g[2] > 0 /\ 255 * g[1] >= target * g[2]

\* C29: no division by zero, no lower clamp.  Whenever
\* computeWhiteBalanceGains returns gains other than the identity, at least 20
\* pixels qualified, each of their channels is in 140..255, so each median is
\* positive and each gain is at least target / 255: no gain is the lower
\* bound 0.6, and a gain that is not the quotient itself is the upper bound 1.6.
C29_LowerClampUnreachable ==
    (pc = "balanced" /\ gains # identityGains) =>
        \A q \in {Qualifying} :
            /\ Cardinality(q) >= 20
            /\ \A i \in q : \A v \in {ChR(i), ChG(i), ChB(i)} : v >= 140 /\ v <= 255
            /\ \A ch \in {<<gains.gainR, TwiceMedian(q, ChR)>>, <<gains.gainG, TwiceMedian(q, ChG)>>,
                           <<gains.gainB, TwiceMedian(q, ChB)>>} :
                  /\ ch[2] >= 2 * 140
                  /\ AtLeastFloor(ch[1], Target)
                  /\ ch[1] # <<3, 5>>
                  /\ ch[1][1] * ch[2] # 2 * Target * ch[1][2] => ch[1] = <<8, 5>>

\* a saturated white median: the gain is target / 255, the least one possible
C29_Witness ==
    /\ pc = "balanced" /\ gains # identityGains
    /\ TwiceMedian(Qualifying, ChB) = 2 * 255
    /\ 255 * gains.gainB[1] = Target * gains.gainB[2]

\* a dull white median with the flash on: 250 / 140 is cut to the upper bound
C29_UpperBinds ==
    /\ pc = "balanced" /\ gains # identityGains /\ flashIsOn
    /\ TwiceMedian(Qualifying, ChG) = 2 * 140
    /\ gains.gainG = <<8, 5>>

(***************************************************************************)
(* Claims about the classifier.  The range tests are restated here by      *)
(* cross-multiplication, independently of FracCmp.                         *)
(***************************************************************************)
InRange(x, lo, hi) == lo * x[2] <= x[1] /\ x[1] <= hi * x[2]

PixelHsl == rgbToHsl(pixel.r, pixel.g, pixel.b, pixel.q)

HueIs(k) == PixelHsl.h = <<k, 1>>

SatLightIn(p) ==
    InRange(PixelHsl.s, p.sMin, p.sMax) /\ InRange(PixelHsl.l, p.lMin, p.lMax)

\* C5: hue wrap-around.  A profile with hMin > hMax accepts a hue h iff
\* h >= hMin or h <= hMax (hMin = 340, hMax = 20 accepts hue 350 and hue 10 and
\* rejects hue 180, saturation and lightness being in range); a profile with
\* hMin <= hMax accepts h iff hMin <= h <= hMax.
C5_HueWrapAround ==
    pc = "classified" =>
        /\ probe.hMin > probe.hMax =>
              (matched.probe <=>
                 /\ SatLightIn(probe)
                 /\ (   PixelHsl.h[1] >= probe.hMin * PixelHsl.h[2]
                      \/ PixelHsl.h[1] <= probe.hMax * PixelHsl.h[2]))
        /\ probe.hMin <= probe.hMax =>
              (matched.probe <=> SatLightIn(probe) /\ InRange(PixelHsl.h, probe.hMin, probe.hMax))
        /\ (probe = WRAP_PROFILE /\ SatLightIn(probe) /\ (HueIs(350) \/ HueIs(10))) => matched.probe
        /\ (probe = WRAP_PROFILE /\ HueIs(180)) => ~matched.probe

\* hue 10 (below hMax) is accepted by the wrapping profile, saturation and
\* lightness in range
C5_Witness ==
    /\ pc = "classified" /\ probe = WRAP_PROFILE
    /\ HueIs(10) /\ SatLightIn(probe) /\ matched.probe

\* the blood profiles whose three ranges all contain the pixel's HSL
Containing ==
    {i \in 1..Len(BLOOD_PROFILES) :
        /\ InRange(PixelHsl.h, BLOOD_PROFILES[i].hMin, BLOOD_PROFILES[i].hMax)
        /\ SatLightIn(BLOOD_PROFILES[i])}

\* C6: first match wins.  matchesBlood returns the lowest-indexed profile of
\* BLOOD_PROFILES whose hue, saturation and lightness ranges all contain the
\* pixel's HSL, and null (0) only when no profile does.
C6_FirstMatchWins ==
    pc = "classified" =>
        IF Containing = {} THEN matched.blood = 0
        ELSE /\ matched.blood \in Containing
             /\ \A i \in Containing : matched.blood <= i

\* a pixel in the overlap of two profiles is reported as the earlier one
C6_Witness ==
    /\ pc = "classified"
    /\ Cardinality(Containing) >= 2
    /\ \A i \in Containing : matched.blood <= i

====
